---- MODULE Spec2Model ----
(***************************************************************************)
(* Model of the build-scene-to-GLTF core of 8bit-bot                       *)
(* (src/app/renderer.py, class GLTFRenderer), of the render command that   *)
(* drives it (src/app/bot.py, render_command) and of the server selection  *)
(* it relies on (src/app/utils.py, get_active_server_url).                 *)
(*                                                                         *)
(* Representation                                                          *)
(*  - Text is a sequence of tokens (strings).  The separators "/", ":",    *)
(*    "," and the blank " " are tokens of their own; every other token is  *)
(*    a run of characters without separators (a numeric literal or a       *)
(*    word).                                                               *)
(*  - Python floats are fixed-point integers in hundredths: 0.01 is 1,     *)
(*    1.0 is 100, 10000.0 is 1000000.                                      *)
(*  - Stored colour components are integers in units of 1/25500, so that   *)
(*    the division by 255 of any value given in hundredths is exact:       *)
(*    1.0 is 25500, 0.5 is 12750.                                          *)
(*  - A decoded JSON value is a record [t, n, s, items, keys]; t is the    *)
(*    Python type ("num", "big", "str", "null", "list", "dict").  "big"    *)
(*    is an integer too large for a float (float() raises OverflowError).  *)
(*  - A call that can raise returns [exc |-> name or "", val |-> value].   *)
(***************************************************************************)
EXTENDS Integers, Sequences, FiniteSets, TLC

\* Largest number of records / blocks in one generated build file.
MaxElems == 2

VARIABLES
    source,          \* the delimited-text records the file was written from (<<>> for JSON files)
    content,         \* the build file: raw text and, when it is valid JSON, the decoded value
    pc,              \* "start", "parsed" (parse returned), "raised" (parse raised), "exported"
    raised,          \* name of the exception parse_build_file let escape, or ""
    positions,       \* GLTFRenderer.positions
    rotations,       \* GLTFRenderer.rotations
    sizes,           \* GLTFRenderer.sizes
    colors,          \* GLTFRenderer.colors
    transparencies,  \* GLTFRenderer.transparencies
    blocks,          \* GLTFRenderer.blocks (the 'type' of each entry)
    block_count,     \* local block_count of parse_build_file
    truncated,       \* TRUE iff the array-length-mismatch repair branch ran
    gltf,            \* what export_to_gltf produced
    peer,            \* a second GLTFRenderer instance, on its own build file
    requests,        \* the render requests being handled (bot.py, render_command)
    files,           \* TEMP_DIR: what is stored at each temporary path
    cache,           \* the backend's build cache: the hashes it knows a model for
    uploads,         \* the uploads made with upload_gltf_to_server
    server_up,       \* whether the primary / fallback web server answers /health with 200
    current_server_url, \* utils._current_server_url
    calls            \* the calls of get_active_server_url made so far

rendererVars == <<source, content, pc, raised, positions, rotations, sizes, colors,
                  transparencies, blocks, block_count, truncated, gltf>>

botVars == <<requests, files, cache, uploads>>

serverVars == <<server_up, current_server_url, calls>>

vars == <<rendererVars, peer, botVars, serverVars>>

-----------------------------------------------------------------------------
(* Generic helpers *)

Max2(a, b) == IF a >= b THEN a ELSE b

Min2(a, b) == IF a <= b THEN a ELSE b

Range(s) == {s[i] : i \in 1..Len(s)}

Take(s, n) == SubSeq(s, 1, Min2(n, Len(s)))

\* the sequences over S of length 1..n
SeqsUpTo(S, n) == UNION {[1..k -> S] : k \in 1..n}

\* sep.join(parts)
RECURSIVE Join(_, _)
Join(parts, sep) ==
    IF Len(parts) = 0 THEN <<>>
    ELSE IF Len(parts) = 1 THEN parts[1]
    ELSE parts[1] \o <<sep>> \o Join(Tail(parts), sep)

-----------------------------------------------------------------------------
(* Python string and number primitives *)

\* str.split(sep): always at least one part; an empty part between two separators
RECURSIVE SplitFrom(_, _, _, _)
SplitFrom(s, sep, i, cur) ==
    IF i > Len(s) THEN <<cur>>
    ELSE IF s[i] = sep THEN <<cur>> \o SplitFrom(s, sep, i + 1, <<>>)
    ELSE SplitFrom(s, sep, i + 1, Append(cur, s[i]))

Split(s, sep) == SplitFrom(s, sep, 1, <<>>)

\* str.strip(): drop the leading and trailing blanks
RECURSIVE LStrip(_)
LStrip(s) == IF Len(s) > 0 /\ Head(s) = " " THEN LStrip(Tail(s)) ELSE s

RECURSIVE RStrip(_)
RStrip(s) ==
    IF Len(s) > 0 /\ s[Len(s)] = " " THEN RStrip(SubSeq(s, 1, Len(s) - 1)) ELSE s

Strip(s) == RStrip(LStrip(s))

\* 'x' in s
Contains(s, tok) == \E i \in 1..Len(s) : s[i] = tok

\* s.strip().startswith(tok)
StartsWith(s, tok) == LET t == Strip(s) IN Len(t) > 0 /\ t[1] = tok

\* The numeric literals that occur in the generated files.
NumLits ==
    {"0", "0.5", "1", "2", "3", "90", "255", "50000", "-3",
     "4", "6", "10", "180", "270", "-90"}

\* float() of one numeric literal, in hundredths
LiteralValue(tok) ==
    CASE tok = "0"     -> 0
      [] tok = "0.5"   -> 50
      [] tok = "1"     -> 100
      [] tok = "2"     -> 200
      [] tok = "3"     -> 300
      [] tok = "90"    -> 9000
      [] tok = "255"   -> 25500
      [] tok = "50000" -> 5000000
      [] tok = "-3"    -> -300
      [] tok = "4"     -> 400
      [] tok = "6"     -> 600
      [] tok = "10"    -> 1000
      [] tok = "180"   -> 18000
      [] tok = "270"   -> 27000
      [] tok = "-90"   -> -9000

Ok(v) == [exc |-> "", val |-> v]

Raise(e) == [exc |-> e, val |-> 0]

\* float(s) for a str: blanks around the literal are accepted, anything else is a ValueError
FloatStr(s) ==
    LET t == Strip(s)
    IN  IF Len(t) = 1 /\ t[1] \in NumLits THEN Ok(LiteralValue(t[1]))
        ELSE Raise("ValueError")

\* [float(x.strip()) for x in s.split(',')]
RECURSIVE FloatStrs(_)
FloatStrs(parts) ==
    IF Len(parts) = 0 THEN Ok(<<>>)
    ELSE LET h == FloatStr(parts[1])
         IN  IF h.exc # "" THEN h
             ELSE LET r == FloatStrs(Tail(parts))
                  IN  IF r.exc # "" THEN r ELSE Ok(<<h.val>> \o r.val)

FloatCsv(s) == FloatStrs(Split(s, ","))

-----------------------------------------------------------------------------
(* Decoded JSON values *)

JNum(n) == [t |-> "num", n |-> n, s |-> <<>>, items |-> <<>>, keys |-> <<>>]

JBig == [t |-> "big", n |-> 0, s |-> <<>>, items |-> <<>>, keys |-> <<>>]

JStr(s) == [t |-> "str", n |-> 0, s |-> s, items |-> <<>>, keys |-> <<>>]

JNull == [t |-> "null", n |-> 0, s |-> <<>>, items |-> <<>>, keys |-> <<>>]

JList(items) == [t |-> "list", n |-> 0, s |-> <<>>, items |-> items, keys |-> <<>>]

\* keys[i] is a str (token sequence), items[i] its value; keys are distinct
JDict(keys, items) == [t |-> "dict", n |-> 0, s |-> <<>>, items |-> items, keys |-> keys]

JVec(a, b, c) == JList(<<JNum(a), JNum(b), JNum(c)>>)

\* dict.get(key, default)
DictGet(d, key, default) ==
    IF \E i \in 1..Len(d.keys) : d.keys[i] = key
    THEN d.items[CHOOSE i \in 1..Len(d.keys) : d.keys[i] = key]
    ELSE default

\* float(v) for a decoded JSON value
FloatJ(v) ==
    CASE v.t = "num" -> Ok(v.n)
      [] v.t = "str" -> FloatStr(v.s)
      [] v.t = "big" -> Raise("OverflowError")
      [] OTHER       -> Raise("TypeError")

\* [float(p) for p in items]
RECURSIVE FloatAll(_)
FloatAll(items) ==
    IF Len(items) = 0 THEN Ok(<<>>)
    ELSE LET h == FloatJ(items[1])
         IN  IF h.exc # "" THEN h
             ELSE LET r == FloatAll(Tail(items))
                  IN  IF r.exc # "" THEN r ELSE Ok(<<h.val>> \o r.val)

\* str(v)
PyStr(v) == IF v.t = "str" THEN v.s ELSE <<"repr">>

-----------------------------------------------------------------------------
(* Colours and sizes *)

\* a value in hundredths as a colour component (units of 1/25500); the float is unchanged
ColorUnits(n) == n * 255

\* c / 255.0 on a colour component
DivideBy255(u) == u \div 255

ColorTuple(v) == <<ColorUnits(v[1]), ColorUnits(v[2]), ColorUnits(v[3])>>

\* color_map of _get_default_color, in hundredths
ColorMap(name) ==
    CASE name = "BuildingBlock" -> <<70, 70, 70>>
      [] name = "GoldBlock"     -> <<90, 80, 20>>
      [] name = "TitaniumBlock" -> <<60, 60, 80>>
      [] name = "PlasticBlock"  -> <<80, 80, 90>>
      [] name = "ConcreteBlock" -> <<60, 60, 60>>
      [] name = "MetalBlock"    -> <<50, 50, 50>>
      [] name = "Piston"        -> <<70, 30, 30>>
      [] name = "FrontWheel"    -> <<20, 20, 20>>
      [] name = "BackWheel"     -> <<20, 20, 20>>
      [] name = "SpikeTrap"     -> <<80, 20, 20>>
      [] name = "Portal"        -> <<20, 80, 80>>
      [] name = "Seat"          -> <<80, 20, 20>>
      [] name = "Glue"          -> <<90, 90, 10>>
      [] name = "Rope"          -> <<50, 30, 10>>
      [] name = "Hinge"         -> <<80, 80, 20>>
      [] name = "TitaniumRod"   -> <<60, 60, 80>>
      [] name = "CameraDome"    -> <<20, 80, 20>>
      [] name = "CarSeat"       -> <<80, 20, 20>>
      [] name = "WoodBlock"     -> <<75, 65, 50>>
      [] name = "Wood"          -> <<75, 65, 50>>
      [] name = "GameBlock"     -> <<75, 65, 50>>
      [] OTHER                  -> <<50, 50, 50>>

\* _get_default_color(block_type); block_type is a str (token sequence)
GetDefaultColor(block_type) ==
    IF Len(block_type) = 1 THEN ColorTuple(ColorMap(block_type[1]))
    ELSE ColorTuple(<<50, 50, 50>>)

\* the literal (0.5, 0.5, 0.5)
Grey == ColorTuple(<<50, 50, 50>>)

ZeroVec == <<0, 0, 0>>

\* the literal [1.0, 1.0, 1.0]
UnitSize == <<100, 100, 100>>

Abs(x) == IF x < 0 THEN -x ELSE x

\* ClampSize without the abs(): a negative size is clamped up to 0.01
ClampSize_NoAbs(s) == Max2(1, Min2(1000000, s))

\* max(0.01, min(10000.0, abs(float(s))))
ClampSize(s) == Max2(1, Min2(1000000, Abs(s)))

ClampSizes(v) == <<ClampSize(v[1]), ClampSize(v[2]), ClampSize(v[3])>>

\* float(c) / 255.0 if c > 1 else float(c), for a float c
NormFloat(c) == IF c > 100 THEN DivideBy255(ColorUnits(c)) ELSE ColorUnits(c)

\* float(c) / 255.0 if c > 1 else float(c), for a decoded JSON value c:
\* the comparison raises TypeError unless c is a number
NormColorJ(c) ==
    CASE c.t = "num" -> Ok(NormFloat(c.n))
      [] c.t = "big" -> Raise("OverflowError")
      [] OTHER       -> Raise("TypeError")

\* tuple(... for c in color[:3])
RECURSIVE NormColorAll(_)
NormColorAll(items) ==
    IF Len(items) = 0 THEN Ok(<<>>)
    ELSE LET h == NormColorJ(items[1])
         IN  IF h.exc # "" THEN h
             ELSE LET r == NormColorAll(Tail(items))
                  IN  IF r.exc # "" THEN r ELSE Ok(<<h.val>> \o r.val)

\* _parse_color(color_value)
ParseColor(color_value) ==
    IF color_value.t = "null" THEN Ok(Grey)
    ELSE IF color_value.t = "list" /\ Len(color_value.items) >= 3
         THEN NormColorAll(Take(color_value.items, 3))
    ELSE IF color_value.t = "str"
         THEN LET parts == FloatCsv(color_value.s)
              IN  IF parts.exc = "" /\ Len(parts.val) >= 3
                  THEN Ok(<<NormFloat(parts.val[1]), NormFloat(parts.val[2]),
                            NormFloat(parts.val[3])>>)
                  ELSE Ok(Grey)
    ELSE Ok(Grey)

-----------------------------------------------------------------------------
(* The six arrays and block_count while parse_build_file runs *)

EmptyArrays ==
    [positions |-> <<>>, rotations |-> <<>>, sizes |-> <<>>, colors |-> <<>>,
     transparencies |-> <<>>, blocks |-> <<>>, block_count |-> 0]

\* the six appends of an except handler ("Still add defaults to keep arrays in sync")
AppendDefaults(a, color, block_type) ==
    [a EXCEPT !.positions = Append(@, ZeroVec),
              !.rotations = Append(@, ZeroVec),
              !.sizes = Append(@, UnitSize),
              !.colors = Append(@, color),
              !.transparencies = Append(@, 0),
              !.blocks = Append(@, block_type),
              !.block_count = @ + 1]

\* colors.append, transparencies.append, blocks.append, block_count += 1
AppendTail(a, color, transparency, block_type) ==
    [a EXCEPT !.colors = Append(@, color),
              !.transparencies = Append(@, transparency),
              !.blocks = Append(@, block_type),
              !.block_count = @ + 1]

-----------------------------------------------------------------------------
(* Format 1: delimited text *)

\* TextVec3 without the len(...) == 3 test: a short field is stored as it is
TextVec3_AnyLength(field_str) ==
    LET r == FloatCsv(field_str)
    IN  IF r.exc = "" THEN r.val ELSE ZeroVec

\* position and rotation fields of a text record
TextVec3(field_str) ==
    LET r == FloatCsv(field_str)
    IN  IF r.exc = "" /\ Len(r.val) = 3 THEN r.val ELSE ZeroVec

\* size field of a text record
TextSize(size_str) ==
    LET r == FloatCsv(size_str)
    IN  IF r.exc = "" /\ Len(r.val) = 3 THEN ClampSizes(r.val) ELSE UnitSize

\* colour field of a text record: the first three floats as written
TextColor(color_str, block_type) ==
    LET r == FloatCsv(color_str)
    IN  IF r.exc = "" /\ Len(r.val) >= 3 THEN ColorTuple(r.val)
        ELSE GetDefaultColor(block_type)

\* body of the loop over content.split('/')
ParseTextBlock(a, block_str) ==
    IF Len(Strip(block_str)) = 0 THEN a
    ELSE LET fields == Split(block_str, ":")
         IN  IF Len(fields) >= 5
             THEN LET position_str == Strip(fields[1])
                      rotation_str == Strip(fields[2])
                      color_str    == Strip(fields[3])
                      size_str     == Strip(fields[4])
                      block_type   == Strip(fields[5])
                      a3 == [a EXCEPT !.positions = Append(@, TextVec3(position_str)),
                                      !.rotations = Append(@, TextVec3(rotation_str)),
                                      !.sizes = Append(@, TextSize(size_str))]
                  IN  AppendTail(a3, TextColor(color_str, block_type), 0, block_type)
             ELSE a

RECURSIVE ParseTextBlocks(_, _)
ParseTextBlocks(a, block_strs) ==
    IF Len(block_strs) = 0 THEN a
    ELSE ParseTextBlocks(ParseTextBlock(a, Head(block_strs)), Tail(block_strs))

-----------------------------------------------------------------------------
(* Format 3: list of lists  [type, position, rotation, ?, size, anchored, color, ...] *)

\* the literal [0, 0, 0] used when an entry is not a list
ZeroItems == <<JNum(0), JNum(0), JNum(0)>>

\* the literal [1, 1, 1] used when the size entry is not a list
UnitItems == <<JNum(100), JNum(100), JNum(100)>>

\* np.array([float(p) for p in v]) if len(v) == 3 else the zero vector; float() may raise
ListVec3(v) == IF Len(v) = 3 THEN FloatAll(v) ELSE Ok(ZeroVec)

\* the size entry: abs, clamp; float() may raise
ListSize(v) ==
    IF Len(v) = 3
    THEN LET r == FloatAll(v) IN IF r.exc # "" THEN r ELSE Ok(ClampSizes(r.val))
    ELSE Ok(UnitSize)

\* the colour entry; the comparison c > 1 may raise
ListColor(color, block_type) ==
    IF color.t = "list" /\ Len(color.items) >= 3
    THEN NormColorAll(Take(color.items, 3))
    ELSE IF color.t = "str" THEN ParseColor(color)
    ELSE Ok(GetDefaultColor(block_type))

\* except handler of the list-of-lists loop: defaults on top of whatever was appended
ListExcept(a) == AppendDefaults(a, Grey, <<"UnknownBlock">>)

\* body of the loop over data, list-of-lists format
ParseListBlock(a, block_data) ==
    IF block_data.t = "list" /\ Len(block_data.items) >= 7
    THEN LET it == block_data.items
             block_type == PyStr(it[1])
             position == IF it[2].t = "list" THEN it[2].items ELSE ZeroItems
             rotation == IF it[3].t = "list" THEN it[3].items ELSE ZeroItems
             size     == IF it[5].t = "list" THEN it[5].items ELSE UnitItems
             color    == it[7]
             pos == ListVec3(position)
         IN  IF pos.exc # "" THEN ListExcept(a)
             ELSE LET a1 == [a EXCEPT !.positions = Append(@, pos.val)]
                      rot == ListVec3(rotation)
                  IN  IF rot.exc # "" THEN ListExcept(a1)
                      ELSE LET a2 == [a1 EXCEPT !.rotations = Append(@, rot.val)]
                               sz == ListSize(size)
                           IN  IF sz.exc # "" THEN ListExcept(a2)
                               ELSE LET a3 == [a2 EXCEPT !.sizes = Append(@, sz.val)]
                                        col == ListColor(color, block_type)
                                    IN  IF col.exc # "" THEN ListExcept(a3)
                                        ELSE AppendTail(a3, col.val, 0, block_type)
    ELSE a

RECURSIVE ParseListBlocks(_, _)
ParseListBlocks(a, data) ==
    IF Len(data) = 0 THEN a
    ELSE ParseListBlocks(ParseListBlock(a, Head(data)), Tail(data))

-----------------------------------------------------------------------------
(* Format 4: dict of block type to list of block dicts *)

\* the default '0, 0, 0' of block.get('Position') and block.get('Rotation')
ZeroStr == JStr(<<"0", ",", " ", "0", ",", " ", "0">>)

\* the default '1, 1, 1' of block.get('Size')
UnitStr == JStr(<<"1", ",", " ", "1", ",", " ", "1">>)

\* Position / Rotation of a block dict.  A str never raises; for a list only
\* ValueError and TypeError are caught.
DictVec3(v) ==
    IF v.t = "str"
    THEN LET r == FloatCsv(v.s)
         IN  IF r.exc = "" /\ Len(r.val) = 3 THEN Ok(r.val) ELSE Ok(ZeroVec)
    ELSE IF v.t = "list"
    THEN LET r == FloatAll(Take(v.items, 3))
         IN  IF r.exc \in {"ValueError", "TypeError"} THEN Ok(ZeroVec)
             ELSE IF r.exc # "" THEN r
             ELSE IF Len(r.val) = 3 THEN Ok(r.val) ELSE Ok(ZeroVec)
    ELSE Ok(ZeroVec)

\* Size of a block dict
DictSize(v) ==
    IF v.t = "str"
    THEN LET r == FloatCsv(v.s)
         IN  IF r.exc = "" /\ Len(r.val) = 3 THEN Ok(ClampSizes(r.val)) ELSE Ok(UnitSize)
    ELSE IF v.t = "list"
    THEN LET r == FloatAll(Take(v.items, 3))
         IN  IF r.exc \in {"ValueError", "TypeError"} THEN Ok(UnitSize)
             ELSE IF r.exc # "" THEN r
             ELSE IF Len(r.val) = 3 THEN Ok(ClampSizes(r.val)) ELSE Ok(UnitSize)
    ELSE Ok(UnitSize)

\* Color of a block dict: block.get('Color', None)
DictColor(block, block_type) ==
    LET color == DictGet(block, <<"Color">>, JNull)
    IN  IF color.t = "null" THEN Ok(GetDefaultColor(block_type)) ELSE ParseColor(color)

\* Transparency of a block dict: float(block.get('Transparency', 0))
DictTransparency(block) ==
    LET r == FloatJ(DictGet(block, <<"Transparency">>, JNum(0)))
    IN  IF r.exc \in {"ValueError", "TypeError"} THEN Ok(0) ELSE r

\* except handler of the dict loop: defaults on top of whatever was appended
DictExcept(a, block_type) == AppendDefaults(a, GetDefaultColor(block_type), block_type)

\* the appends of the loop body, in their order, given what each field's
\* expression evaluates to; the first exception hands over to the except handler
AppendDictBlock(a, block_type, pos, rot, sz, col, tr) ==
    IF pos.exc # "" THEN DictExcept(a, block_type)
    ELSE IF rot.exc # ""
    THEN DictExcept([a EXCEPT !.positions = Append(@, pos.val)], block_type)
    ELSE IF sz.exc # ""
    THEN DictExcept([a EXCEPT !.positions = Append(@, pos.val),
                              !.rotations = Append(@, rot.val)], block_type)
    ELSE IF col.exc # ""
    THEN DictExcept([a EXCEPT !.positions = Append(@, pos.val),
                              !.rotations = Append(@, rot.val),
                              !.sizes = Append(@, sz.val)], block_type)
    ELSE IF tr.exc # ""
    THEN DictExcept([a EXCEPT !.positions = Append(@, pos.val),
                              !.rotations = Append(@, rot.val),
                              !.sizes = Append(@, sz.val),
                              !.colors = Append(@, col.val)], block_type)
    ELSE [a EXCEPT !.positions = Append(@, pos.val),
                   !.rotations = Append(@, rot.val),
                   !.sizes = Append(@, sz.val),
                   !.colors = Append(@, col.val),
                   !.transparencies = Append(@, tr.val),
                   !.blocks = Append(@, block_type),
                   !.block_count = @ + 1]

\* body of the loop over block_list, for a block that is a dict
ParseDictBlock(a, block_type, block) ==
    AppendDictBlock(a, block_type,
                    DictVec3(DictGet(block, <<"Position">>, ZeroStr)),
                    DictVec3(DictGet(block, <<"Rotation">>, ZeroStr)),
                    DictSize(DictGet(block, <<"Size">>, UnitStr)),
                    DictColor(block, block_type),
                    DictTransparency(block))

\* for block in block_list
RECURSIVE ParseBlockList(_, _, _)
ParseBlockList(a, block_type, block_list) ==
    IF Len(block_list) = 0 THEN a
    ELSE LET block == Head(block_list)
             a1 == IF block.t = "dict" THEN ParseDictBlock(a, block_type, block) ELSE a
         IN  ParseBlockList(a1, block_type, Tail(block_list))

\* for block_type, block_list in data.items(), from the i-th item on
RECURSIVE ParseDictItems(_, _, _)
ParseDictItems(a, data, i) ==
    IF i > Len(data.keys) THEN a
    ELSE LET block_list == data.items[i]
             a1 == IF block_list.t = "list"
                   THEN ParseBlockList(a, data.keys[i], block_list.items)
                   ELSE a
         IN  ParseDictItems(a1, data, i + 1)

\* a normal return of parse_build_file
Returned(a, trunc) == [arr |-> a, truncated |-> trunc, exc |-> ""]

\* the six lengths of array_lengths
ArrayLengths(a) ==
    {Len(a.positions), Len(a.rotations), Len(a.sizes), Len(a.colors),
     Len(a.transparencies), Len(a.blocks)}

SetMin(S) == CHOOSE m \in S : \A x \in S : m <= x

\* array validation at the end of the dict branch, and the return after it
ValidateArrays(a) ==
    IF Len(a.positions) = 0 THEN Returned(a, FALSE)
    ELSE IF Cardinality(ArrayLengths(a)) > 1 /\ SetMin(ArrayLengths(a)) > 0
    THEN Returned([a EXCEPT !.positions = Take(@, SetMin(ArrayLengths(a))),
                            !.rotations = Take(@, SetMin(ArrayLengths(a))),
                            !.sizes = Take(@, SetMin(ArrayLengths(a))),
                            !.colors = Take(@, SetMin(ArrayLengths(a))),
                            !.transparencies = Take(@, SetMin(ArrayLengths(a))),
                            !.blocks = Take(@, SetMin(ArrayLengths(a)))],
                  TRUE)
    ELSE Returned(a, FALSE)

-----------------------------------------------------------------------------
(* parse_build_file *)

\* the format-1 test on the raw content
IsTextFormat(text) ==
    /\ Contains(text, "/")
    /\ Contains(text, ":")
    /\ ~StartsWith(text, "[")
    /\ ~StartsWith(text, "{")

\* the dict branch, entered with whatever data is by then
ParseDictData(data) ==
    IF data.t # "dict"
    THEN [arr |-> EmptyArrays, truncated |-> FALSE, exc |-> "AttributeError"]
    ELSE ValidateArrays(ParseDictItems(EmptyArrays, data, 1))

\* which branch of `if isinstance(data, list)` a decoded list takes
ListBranch(items) ==
    IF Len(items) = 2 /\ items[1].t = "list" /\ items[2].t = "dict" THEN "wrapped"
    ELSE IF Len(items) > 0 /\ items[1].t = "list" THEN "list_of_lists"
    ELSE IF Len(items) > 1 /\ items[2].t = "dict" THEN "second_is_dict"
    ELSE IF Len(items) > 0 /\ items[1].t = "dict" THEN "first_is_dict"
    ELSE "return"

\* what `data` is bound to when the dict branch is entered
DictBranchData(data) ==
    IF data.t # "list" THEN data
    ELSE IF ListBranch(data.items) = "first_is_dict" THEN data.items[1]
    ELSE data.items[2]

\* the branches on the decoded JSON value
ParseJson(data) ==
    IF data.t = "list" /\ ListBranch(data.items) = "list_of_lists"
    THEN Returned(ParseListBlocks(EmptyArrays, data.items), FALSE)
    ELSE IF data.t = "list" /\ ListBranch(data.items) = "return"
    THEN Returned(EmptyArrays, FALSE)
    ELSE ParseDictData(DictBranchData(data))

\* the whole of parse_build_file on the file's content
ParseOutcome(c) ==
    IF IsTextFormat(c.text)
    THEN Returned(ParseTextBlocks(EmptyArrays, Split(c.text, "/")), FALSE)
    ELSE IF ~c.is_json THEN Returned(EmptyArrays, FALSE)
    ELSE ParseJson(c.json)

-----------------------------------------------------------------------------
(* export_to_gltf: materials, material groups, one cuboid per element, center *)

\* nothing written and nothing returned
NoGltf ==
    [written |-> FALSE, scene |-> 0, scenes |-> <<>>, nodes |-> <<>>, meshes |-> <<>>,
     materials |-> <<>>, accessors |-> <<>>, bufferViews |-> <<>>, buffers |-> <<>>,
     returned |-> FALSE, center |-> ZeroVec, max_size |-> 0]

\* a material key that leaves the transparency out
MaterialKey_ColorOnly(a, i) ==
    <<(IF i <= Len(a.colors) THEN a.colors[i] ELSE Grey)[1],
      (IF i <= Len(a.colors) THEN a.colors[i] ELSE Grey)[2],
      (IF i <= Len(a.colors) THEN a.colors[i] ELSE Grey)[3], 0>>

\* material_key of element i, with the fallbacks for short colors / transparencies
MaterialKey(a, i) ==
    LET color == IF i <= Len(a.colors) THEN a.colors[i] ELSE Grey
        transparency == IF i <= Len(a.transparencies) THEN a.transparencies[i] ELSE 0
    IN  <<color[1], color[2], color[3], transparency>>

\* the material appended for a new key, with alphaMode BLEND whenever alpha is not 1.0
NewMaterial_BlendUnlessOne(material_idx, key) ==
    [name |-> <<"Material_", material_idx>>,
     color |-> <<key[1], key[2], key[3]>>, alpha |-> 100 - key[4],
     doubleSided |-> TRUE, blend |-> (100 - key[4]) # 100,
     metallic |-> 10, roughness |-> 40]

\* the material appended for a new key: alpha = 1.0 - transparency, BLEND iff alpha < 1.0
NewMaterial(material_idx, key) ==
    [name |-> <<"Material_", material_idx>>,
     color |-> <<key[1], key[2], key[3]>>, alpha |-> 100 - key[4],
     doubleSided |-> TRUE, blend |-> (100 - key[4]) < 100,
     metallic |-> 10, roughness |-> 40]

\* the first loop with material indices that depend on something other than first
\* appearance: a new key goes in front of the keys found so far
RECURSIVE GroupByMaterial_NewestFirst(_, _, _)
GroupByMaterial_NewestFirst(a, m, i) ==
    IF i > Len(a.positions) THEN m
    ELSE LET key == MaterialKey(a, i)
         IN  IF \E k \in 1..Len(m.keys) : m.keys[k] = key
             THEN LET k == CHOOSE k \in 1..Len(m.keys) : m.keys[k] = key
                  IN  GroupByMaterial_NewestFirst(
                          a, [m EXCEPT !.groups[k] = Append(@, i)], i + 1)
             ELSE GroupByMaterial_NewestFirst(
                      a, [keys |-> <<key>> \o m.keys,
                          groups |-> <<(<<i>>)>> \o m.groups], i + 1)

\* the loop "for i in range(len(self.positions))": m.keys is material_map in insertion
\* order, m.groups[k] is material_groups[k]
RECURSIVE GroupByMaterial(_, _, _)
GroupByMaterial(a, m, i) ==
    IF i > Len(a.positions) THEN m
    ELSE LET key == MaterialKey(a, i)
         IN  IF \E k \in 1..Len(m.keys) : m.keys[k] = key
             THEN LET k == CHOOSE k \in 1..Len(m.keys) : m.keys[k] = key
                  IN  GroupByMaterial(a, [m EXCEPT !.groups[k] = Append(@, i)], i + 1)
             ELSE GroupByMaterial(a, [keys |-> Append(m.keys, key),
                                      groups |-> Append(m.groups, <<i>>)], i + 1)

\* cos and sin of an angle given in hundredths of a degree; the angles the build
\* files carry are multiples of 90 degrees, where both are whole numbers
CosDeg(a) ==
    CASE a % 36000 = 0     -> 1
      [] a % 36000 = 9000  -> 0
      [] a % 36000 = 18000 -> -1
      [] a % 36000 = 27000 -> 0

SinDeg(a) ==
    CASE a % 36000 = 0     -> 0
      [] a % 36000 = 9000  -> 1
      [] a % 36000 = 18000 -> 0
      [] a % 36000 = 27000 -> -1

\* the dot product of two 3-vectors
Dot(u, v) == u[1] * v[1] + u[2] * v[2] + u[3] * v[3]

\* column j of a 3x3 matrix given as its rows
Column(M, j) == <<M[1][j], M[2][j], M[3][j]>>

\* M.T
Transpose(M) == <<Column(M, 1), Column(M, 2), Column(M, 3)>>

\* A @ B for 3x3 matrices
MatMul(A, B) == [i \in 1..3 |-> [j \in 1..3 |-> Dot(A[i], Column(B, j))]]

\* M @ v for a 3x3 matrix and a 3-vector
MatVec(M, v) == <<Dot(M[1], v), Dot(M[2], v), Dot(M[3], v)>>

\* v @ M for a row vector and a 3x3 matrix
VecMat(v, M) == <<Dot(v, Column(M, 1)), Dot(v, Column(M, 2)), Dot(v, Column(M, 3))>>

\* Y rotation (yaw)
RotY(cosy, siny) == <<<<cosy, 0, -siny>>, <<0, 1, 0>>, <<siny, 0, cosy>>>>

\* X rotation (pitch)
RotX(cosx, sinx) == <<<<1, 0, 0>>, <<0, cosx, sinx>>, <<0, -sinx, cosx>>>>

\* Z rotation (roll)
RotZ(cosz, sinz) == <<<<cosz, sinz, 0>>, <<-sinz, cosz, 0>>, <<0, 0, 1>>>>

\* Ry @ Rx @ Rz with the Z angle as given
BuildRobloxRotationMatrix_NoNegate(rotation_deg) ==
    MatMul(MatMul(RotY(CosDeg(rotation_deg[2]), SinDeg(rotation_deg[2])),
                  RotX(CosDeg(rotation_deg[1]), SinDeg(rotation_deg[1]))),
           RotZ(CosDeg(rotation_deg[3]), SinDeg(rotation_deg[3])))

\* Ry @ Rx @ Rz with the Z angle negated
BuildRobloxRotationMatrix(rotation_deg) ==
    MatMul(MatMul(RotY(CosDeg(rotation_deg[2]), SinDeg(rotation_deg[2])),
                  RotX(CosDeg(rotation_deg[1]), SinDeg(rotation_deg[1]))),
           RotZ(CosDeg(-rotation_deg[3]), SinDeg(-rotation_deg[3])))

\* the position copied without the flip of its Z component
ConvertPosition_NoFlip(position_roblox) == position_roblox

\* position[2] = -position[2]
ConvertPosition(position_roblox) ==
    <<position_roblox[1], position_roblox[2], -position_roblox[3]>>

\* the signs of corners_local, corner 0 first
CornerSigns ==
    <<<<-1, -1, -1>>, <<1, -1, -1>>, <<1, 1, -1>>, <<-1, 1, -1>>,
      <<-1, -1, 1>>, <<1, -1, 1>>, <<1, 1, 1>>, <<-1, 1, 1>>>>

\* u + v for 3-vectors
VecAdd(u, v) == <<u[1] + v[1], u[2] + v[2], u[3] + v[3]>>

\* corners_local, in half hundredths: half_size is size / 2, so a half size in
\* half hundredths is the size in hundredths
CornersLocal(size) ==
    [c \in 1..8 |-> <<CornerSigns[c][1] * size[1], CornerSigns[c][2] * size[2],
                      CornerSigns[c][3] * size[3]>>]

\* local @ Rt + position for each row of local, the position in half hundredths
TransformCorners(local, Rt, position) ==
    [c \in 1..8 |-> VecAdd(VecMat(local[c], Rt), position)]

\* (corners_local @ R.T) + position, in half hundredths
Corners(size, R, position) ==
    TransformCorners(CornersLocal(size), Transpose(R),
                     <<2 * position[1], 2 * position[2], 2 * position[3]>>)

\* face_defs: the corner numbers (from 0) and the base normal of the six faces
FaceDefs ==
    <<[corner_indices |-> <<0, 1, 2, 3>>, normal_base |-> <<0, 0, -1>>],
      [corner_indices |-> <<4, 7, 6, 5>>, normal_base |-> <<0, 0, 1>>],
      [corner_indices |-> <<0, 4, 5, 1>>, normal_base |-> <<0, -1, 0>>],
      [corner_indices |-> <<2, 6, 7, 3>>, normal_base |-> <<0, 1, 0>>],
      [corner_indices |-> <<0, 3, 7, 4>>, normal_base |-> <<-1, 0, 0>>],
      [corner_indices |-> <<1, 5, 6, 2>>, normal_base |-> <<1, 0, 0>>]>>

\* one vertex per corner instead of one per corner of each face
CuboidVertices_CornersOnly(corners) == corners

\* the vertices one element appends to group_vertices: 4 per face, face by face
CuboidVertices(corners) ==
    [v \in 1..(4 * Len(FaceDefs)) |->
        corners[FaceDefs[((v - 1) \div 4) + 1].corner_indices[((v - 1) % 4) + 1] + 1]]

\* normal_transformed of each face: R @ normal_base
FaceNormals(R) == [f \in 1..Len(FaceDefs) |-> MatVec(R, FaceDefs[f].normal_base)]

\* each face's normal appended once for each of the face's 4 vertices
NormalPerVertex(normals) ==
    [v \in 1..(4 * Len(normals)) |-> normals[((v - 1) \div 4) + 1]]

\* the normals one element appends to group_normals
CuboidNormals(R) == NormalPerVertex(FaceNormals(R))

\* the two triangles of a face, relative to its first vertex
TrianglePattern == <<0, 1, 2, 0, 2, 3>>

\* indices that restart at 0 for every element instead of continuing from the
\* vertices the group already holds
CuboidIndices_FromZero(base_vertex_idx) ==
    [t \in 1..(6 * Len(TrianglePattern)) |->
        ((t - 1) \div Len(TrianglePattern)) * 4
            + TrianglePattern[((t - 1) % Len(TrianglePattern)) + 1]]

\* the indices one element appends to group_indices
CuboidIndices(base_vertex_idx) ==
    [t \in 1..(6 * Len(TrianglePattern)) |->
        base_vertex_idx + ((t - 1) \div Len(TrianglePattern)) * 4
            + TrianglePattern[((t - 1) % Len(TrianglePattern)) + 1]]

\* one element of a material group, from its converted position, size and matrix
MakeCuboid(block_idx, position, size, rotation, R) ==
    [index |-> block_idx, position |-> position, size |-> size, rotation |-> rotation,
     R |-> R, corners |-> Corners(size, R, position)]

\* one element of a material group: the reads of positions, sizes and rotations
\* with their fallbacks, abs and clip of the size, the converted position
Cuboid(a, block_idx) ==
    MakeCuboid(block_idx,
               ConvertPosition(a.positions[block_idx]),
               ClampSizes(IF block_idx <= Len(a.sizes) THEN a.sizes[block_idx] ELSE UnitSize),
               IF block_idx <= Len(a.rotations) THEN a.rotations[block_idx] ELSE ZeroVec,
               BuildRobloxRotationMatrix(
                   IF block_idx <= Len(a.rotations) THEN a.rotations[block_idx] ELSE ZeroVec))

AxisMin(ps, d) == CHOOSE v \in {ps[i][d] : i \in 1..Len(ps)} : \A i \in 1..Len(ps) : v <= ps[i][d]

AxisMax(ps, d) == CHOOSE v \in {ps[i][d] : i \in 1..Len(ps)} : \A i \in 1..Len(ps) : v >= ps[i][d]

\* center_lh returned as it is, without the flip of its Z component
Center_NoFlip(ps) ==
    <<(AxisMin(ps, 1) + AxisMax(ps, 1)) \div 2,
      (AxisMin(ps, 2) + AxisMax(ps, 2)) \div 2,
      (AxisMin(ps, 3) + AxisMax(ps, 3)) \div 2>>

\* center_lh with Z negated; the generated positions are whole numbers, so the halves are exact
Center(ps) ==
    <<(AxisMin(ps, 1) + AxisMax(ps, 1)) \div 2,
      (AxisMin(ps, 2) + AxisMax(ps, 2)) \div 2,
      -((AxisMin(ps, 3) + AxisMax(ps, 3)) \div 2)>>

\* np.max(max_bounds - min_bounds)
MaxExtent(ps) ==
    Max2(AxisMax(ps, 1) - AxisMin(ps, 1),
         Max2(AxisMax(ps, 2) - AxisMin(ps, 2), AxisMax(ps, 3) - AxisMin(ps, 3)))

\* what one element adds to group_vertices, group_normals and group_indices;
\* base_vertex_idx is len(group_vertices) before the element's vertices are added
AppendCuboid(g, c) ==
    [cuboids |-> Append(g.cuboids, c),
     vertices |-> g.vertices \o CuboidVertices(c.corners),
     normals |-> g.normals \o CuboidNormals(c.R),
     indices |-> g.indices \o CuboidIndices(Len(g.vertices))]

\* for block_idx in block_indices, from the j-th on
RECURSIVE BuildGroup(_, _, _, _)
BuildGroup(a, block_indices, j, g) ==
    IF j > Len(block_indices) THEN g
    ELSE BuildGroup(a, block_indices, j + 1, AppendCuboid(g, Cuboid(a, block_indices[j])))

\* padding computed without the outer "% 4": an aligned buffer grows by 4 bytes
PadBuffer_AlwaysPads(len) == len + (4 - (len % 4))

\* pad_buffer, on the length of the buffer
PadBuffer(len) == len + ((4 - (len % 4)) % 4)

\* the buffer, the three bufferViews, the three accessors and the primitive of one
\* material group, appended to the document; the arguments are the padded byte
\* lengths of the three streams
AppendStreams(doc, material_idx, g, vertices_bytes, normals_bytes, indices_bytes) ==
    [doc EXCEPT
        !.buffers = Append(@, [byteLength |-> vertices_bytes + normals_bytes + indices_bytes,
                               vertices |-> g.vertices,
                               normals |-> g.normals,
                               indices |-> g.indices]),
        !.bufferViews = @ \o
            <<[buffer |-> Len(doc.buffers), byteOffset |-> 0,
               byteLength |-> vertices_bytes, target |-> 34962],
              [buffer |-> Len(doc.buffers), byteOffset |-> vertices_bytes,
               byteLength |-> normals_bytes, target |-> 34962],
              [buffer |-> Len(doc.buffers), byteOffset |-> vertices_bytes + normals_bytes,
               byteLength |-> indices_bytes, target |-> 34963]>>,
        !.accessors = @ \o
            <<[bufferView |-> Len(doc.bufferViews), byteOffset |-> 0,
               componentType |-> 5126, count |-> Len(g.vertices), type |-> "VEC3"],
              [bufferView |-> Len(doc.bufferViews) + 1, byteOffset |-> 0,
               componentType |-> 5126, count |-> Len(g.normals), type |-> "VEC3"],
              [bufferView |-> Len(doc.bufferViews) + 2, byteOffset |-> 0,
               componentType |-> 5125, count |-> Len(g.indices), type |-> "SCALAR"]>>,
        !.primitives = Append(@, [POSITION |-> Len(doc.accessors),
                                  NORMAL |-> Len(doc.accessors) + 1,
                                  indices |-> Len(doc.accessors) + 2,
                                  material |-> material_idx,
                                  cuboids |-> g.cuboids])]

\* the body of "for material_idx in sorted(material_groups.keys())": a group that
\* produced no vertices is skipped; float32 is 4 bytes a component, uint32 4 bytes
AppendGroup(doc, material_idx, g) ==
    IF Len(g.vertices) = 0 THEN doc
    ELSE AppendStreams(doc, material_idx, g,
                       PadBuffer(Len(g.vertices) * 3 * 4),
                       PadBuffer(Len(g.normals) * 3 * 4),
                       PadBuffer(Len(g.indices) * 4))

EmptyGroup == [cuboids |-> <<>>, vertices |-> <<>>, normals |-> <<>>, indices |-> <<>>]

\* the loop over the material groups with every primitive given material 0
RECURSIVE BuildPrimitives_MaterialZero(_, _, _, _)
BuildPrimitives_MaterialZero(a, m, k, doc) ==
    IF k > Len(m.groups) THEN doc
    ELSE BuildPrimitives_MaterialZero(a, m, k + 1,
             AppendGroup(doc, 0, BuildGroup(a, m.groups[k], 1, EmptyGroup)))

\* for material_idx in sorted(material_groups.keys()), from the k-th group on
RECURSIVE BuildPrimitives(_, _, _, _)
BuildPrimitives(a, m, k, doc) ==
    IF k > Len(m.groups) THEN doc
    ELSE BuildPrimitives(a, m, k + 1,
                         AppendGroup(doc, k - 1, BuildGroup(a, m.groups[k], 1, EmptyGroup)))

\* the materials appended by the first loop, in material_idx order
\* the first loop creating no material at all for a non-empty positions list
Materials_None(m) == <<>>

Materials(m) == [k \in 1..Len(m.keys) |-> NewMaterial(k - 1, m.keys[k])]

\* the material appended when the first loop created none
DefaultMaterial ==
    [name |-> "DefaultMaterial", color |-> Grey, alpha |-> 100,
     doubleSided |-> FALSE, blend |-> FALSE, metallic |-> 0, roughness |-> 70]

\* the document with its skeleton and the materials, before the groups are built
Skeleton(materials) ==
    [materials |-> materials, primitives |-> <<>>, accessors |-> <<>>,
     bufferViews |-> <<>>, buffers |-> <<>>]

\* the document as it is dumped, and the (center, max_size) pair returned
Written(doc, center, max_size) ==
    [written |-> TRUE,
     scene |-> 0,
     scenes |-> <<[nodes |-> <<0>>]>>,
     nodes |-> <<[mesh |-> 0]>>,
     meshes |-> <<[primitives |-> doc.primitives]>>,
     materials |-> IF Len(doc.materials) = 0 THEN <<DefaultMaterial>> ELSE doc.materials,
     accessors |-> doc.accessors,
     bufferViews |-> doc.bufferViews,
     buffers |-> doc.buffers,
     returned |-> TRUE,
     center |-> center,
     max_size |-> max_size]

\* the document export_to_gltf writes for non-empty positions
ExportFrom(a, m) ==
    Written(BuildPrimitives(a, m, 1, Skeleton(Materials(m))),
            Center(a.positions), MaxExtent(a.positions))

ExportDocument(a) == ExportFrom(a, GroupByMaterial(a, [keys |-> <<>>, groups |-> <<>>], 1))

-----------------------------------------------------------------------------
(* Build files *)

\* json.dumps: the raw text of a decoded value
RECURSIVE Dumps(_)
Dumps(v) ==
    CASE v.t = "num"  -> <<CHOOSE tok \in NumLits : LiteralValue(tok) = v.n>>
      [] v.t = "big"  -> <<"1e400">>
      [] v.t = "str"  -> <<"\"">> \o v.s \o <<"\"">>
      [] v.t = "null" -> <<"null">>
      [] v.t = "list" ->
            <<"[">> \o Join([i \in 1..Len(v.items) |-> Dumps(v.items[i])], ",") \o <<"]">>
      [] v.t = "dict" ->
            <<"{">>
            \o Join([i \in 1..Len(v.keys) |->
                        <<"\"">> \o v.keys[i] \o <<"\"", ":">> \o Dumps(v.items[i])], ",")
            \o <<"}">>

\* one field of a text record: its components joined by ","
RenderField(field) == Join([j \in 1..Len(field) |-> <<field[j]>>], ",")

\* one text record: its fields joined by ":"
RenderRecord(rec) == Join([i \in 1..Len(rec) |-> RenderField(rec[i])], ":")

\* a delimited-text file: the records joined by "/", then the terminator
RenderText(recs, term) == Join([i \in 1..Len(recs) |-> RenderRecord(recs[i])], "/") \o term

Terminators == {<<>>, <<"/">>, <<"/", " ">>}

TextFile(recs, term) ==
    [text |-> RenderText(recs, term), is_json |-> FALSE, json |-> JNull]

JsonFile(j) == [text |-> Dumps(j), is_json |-> TRUE, json |-> j]

TRec(p, r, c, s, t) == <<p, r, c, s, <<t>>>>

TPos == <<"1", "2", "3">>

TRot == <<"0", "90", "0">>

TCol == <<"0.5", "1", "0">>

TSize == <<"0", "50000", "-3">>

\* the record of the round-trip property: 0,0,0:0,0,0:0.5,0.5,0.5:1,1,1:Block
RoundTripRecord ==
    TRec(<<"0", "0", "0">>, <<"0", "0", "0">>, <<"0.5", "0.5", "0.5">>,
         <<"1", "1", "1">>, "Block")

BadColors == {<<"red">>, <<"1", "1">>, <<"0.5", "0.5", "0.5", "1">>}

\* text records: at most one field away from a well-formed record
TextRecords ==
    {TRec(TPos, TRot, TCol, TSize, "GoldBlock"), RoundTripRecord}
    \cup {TRec(p, TRot, TCol, TSize, "GoldBlock") : p \in {<<"x", "2", "3">>, <<"1", "2">>}}
    \cup {TRec(TPos, r, TCol, TSize, "GoldBlock") : r \in {<<"x">>}}
    \cup {TRec(TPos, TRot, c, TSize, t) :
            c \in BadColors \cup {<<"255", "0", "0">>, <<"0.5", "0.5", "0.5", "x">>},
            t \in {"GoldBlock", "Block"}}
    \cup {TRec(TPos, TRot, TCol, s, "GoldBlock") :
            s \in {<<"big">>, <<"1", "1">>, <<"2", "2", "2">>}}
    \cup {<<TPos, TRot, TCol, TSize>>,
          <<TPos, TRot, TCol, TSize, <<"GoldBlock">>, <<"extra">>>>,
          <<>>}

TextFiles == {<<recs, term>> : recs \in SeqsUpTo(TextRecords, MaxElems), term \in Terminators}

JW(word) == JStr(<<word>>)

JCsv(a, b, c) == JStr(<<a, ",", b, ",", c>>)

\* a list-of-lists record
LRec(t, p, r, s, c) == JList(<<JW(t), p, r, JNull, s, JNum(100), c>>)

LPos == JVec(100, 200, 300)

LRot == JVec(0, 9000, 0)

LSize == JVec(0, 5000000, -300)

LCol == JVec(25500, 50, 100)

J2 == JList(<<JNum(100), JNum(200)>>)

JBadVec == JList(<<JW("x"), JNum(0), JNum(0)>>)

JBigVec == JList(<<JBig, JNum(0), JNum(0)>>)

ListRecords ==
    {LRec("GoldBlock", LPos, LRot, LSize, LCol)}
    \cup {LRec("GoldBlock", p, LRot, LSize, LCol) : p \in {JCsv("1", "2", "3"), J2, JBadVec}}
    \cup {LRec("GoldBlock", LPos, r, LSize, LCol) : r \in {JBadVec, JNull}}
    \cup {LRec("GoldBlock", LPos, LRot, s, LCol) : s \in {J2, JBadVec}}
    \cup {LRec(t, LPos, LRot, LSize, c) :
            c \in {JNull, JW("red"), J2, JCsv("255", "0", "0"),
                   JList(<<JW("a"), JW("b"), JW("c")>>)},
            t \in {"GoldBlock", "Block"}}
    \cup {JList(<<JW("GoldBlock"), LPos, LRot>>), JNum(100)}

ListFiles == {JList(recs) : recs \in SeqsUpTo(ListRecords, MaxElems)}

Absent == [t |-> "absent", n |-> 0, s |-> <<>>, items |-> <<>>, keys |-> <<>>]

\* a block dict with the given entries; an Absent entry leaves its key out
DBlock(p, r, s, c, tr) ==
    LET all == <<p, r, s, c, tr>>
        names == <<"Position", "Rotation", "Size", "Color", "Transparency">>
        present == SelectSeq(<<1, 2, 3, 4, 5>>, LAMBDA i : all[i].t # "absent")
    IN  JDict([k \in 1..Len(present) |-> <<names[present[k]]>>],
              [k \in 1..Len(present) |-> all[present[k]]])

DPos == JCsv("1", "2", "3")

DRot == JVec(0, 9000, 0)

DSize == JCsv("0", "50000", "-3")

DCol == JVec(25500, 50, 100)

DictBlocks ==
    {DBlock(DPos, DRot, DSize, DCol, Absent)}
    \cup {DBlock(p, DRot, DSize, DCol, Absent) :
            p \in {LPos, Absent, JCsv("x", "2", "3"), J2, JBadVec, JNum(100), JBigVec}}
    \cup {DBlock(DPos, r, DSize, DCol, Absent) : r \in {JCsv("0", "90", "0"), Absent, JBigVec}}
    \cup {DBlock(DPos, DRot, s, DCol, Absent) :
            s \in {LSize, Absent, JW("big"),
                   JList(<<JNum(0), JNum(5000000), JNum(-300), JNum(100)>>)}}
    \cup {DBlock(DPos, DRot, DSize, c, Absent) :
            c \in {Absent, JNull, JW("red"), J2, JCsv("255", "0", "0"),
                   JList(<<JW("a"), JW("b"), JW("c")>>)}}
    \cup {DBlock(DPos, DRot, DSize, DCol, tr) : tr \in {JNum(50), JW("x"), JBig}}
    \cup {JNum(100)}

\* blocks used where the block type or the wrapping varies
FewBlocks ==
    {DBlock(DPos, DRot, DSize, DCol, Absent),
     DBlock(DPos, DRot, DSize, Absent, Absent),
     DBlock(DPos, DRot, DSize, JW("red"), Absent),
     DBlock(DPos, DRot, DSize, JList(<<JW("a"), JW("b"), JW("c")>>), Absent)}

OneType(t, bs) == JDict(<<<<t>>>>, <<JList(bs)>>)

DictFiles ==
    {OneType("GoldBlock", bs) : bs \in SeqsUpTo(DictBlocks, MaxElems)}
    \cup {OneType("Block", <<b>>) : b \in FewBlocks}
    \cup {JDict(<<<<"GoldBlock">>, <<"Block">>>>, <<JList(<<b1>>), JList(<<b2>>)>>) :
            b1 \in FewBlocks, b2 \in FewBlocks}
    \cup {JDict(<<<<"GoldBlock">>>>, <<JNum(100)>>), JDict(<<>>, <<>>)}

\* the other top-level shapes
WrappedFiles ==
    UNION {{JList(<<JList(<<JW("GoldBlock")>>), OneType("GoldBlock", <<b>>)>>),
            JList(<<JNum(100), OneType("GoldBlock", <<b>>)>>),
            JList(<<OneType("GoldBlock", <<b>>)>>),
            JList(<<OneType("GoldBlock", <<b>>), JNum(100)>>)} : b \in FewBlocks}
    \cup {JList(<<>>), JList(<<JNum(100), JNum(200)>>),
          JNum(100), JNull, JW("abc"), JStr(<<"a", "/", "b", ":", "c">>)}

JsonFiles == ListFiles \cup DictFiles \cup WrappedFiles

\* text that is neither delimited text nor JSON
OtherFiles == {[text |-> <<"hello">>, is_json |-> FALSE, json |-> JNull]}

-----------------------------------------------------------------------------
(* The parts of the state that a single conversion does not use *)

None == "None"

\* there is no second renderer
NoPeer ==
    peer = [pc |-> "none", content |-> None, raised |-> "", arrays |-> EmptyArrays,
            gltf |-> NoGltf]

\* no render request is being handled, TEMP_DIR is empty
NoRequests ==
    /\ requests = <<>>
    /\ files = <<>>
    /\ cache = {}
    /\ uploads = {}

\* get_active_server_url has not been called
NoServerCalls ==
    /\ server_up = [primary |-> TRUE, fallback |-> TRUE]
    /\ current_server_url = None
    /\ calls = <<>>

\* no renderer has been constructed outside the requests
NoRenderer ==
    /\ source = <<>>
    /\ content = None
    /\ pc = "none"
    /\ raised = ""
    /\ positions = <<>>
    /\ rotations = <<>>
    /\ sizes = <<>>
    /\ colors = <<>>
    /\ transparencies = <<>>
    /\ blocks = <<>>
    /\ block_count = 0
    /\ truncated = FALSE
    /\ gltf = NoGltf

(* The state machine: GLTFRenderer(path), parse_build_file(), export_to_gltf(path) *)

Init ==
    /\ \/ \E f \in TextFiles : source = f[1] /\ content = TextFile(f[1], f[2])
       \/ \E j \in JsonFiles : source = <<>> /\ content = JsonFile(j)
       \/ \E c \in OtherFiles : source = <<>> /\ content = c
    /\ pc = "start"
    /\ raised = ""
    /\ positions = <<>>
    /\ rotations = <<>>
    /\ sizes = <<>>
    /\ colors = <<>>
    /\ transparencies = <<>>
    /\ blocks = <<>>
    /\ block_count = 0
    /\ truncated = FALSE
    /\ gltf = NoGltf
    /\ NoPeer /\ NoRequests /\ NoServerCalls

ParseBuildFile ==
    /\ pc = "start"
    /\ \E r \in {ParseOutcome(content)} :
           /\ positions' = r.arr.positions
           /\ rotations' = r.arr.rotations
           /\ sizes' = r.arr.sizes
           /\ colors' = r.arr.colors
           /\ transparencies' = r.arr.transparencies
           /\ blocks' = r.arr.blocks
           /\ block_count' = r.arr.block_count
           /\ truncated' = r.truncated
           /\ raised' = r.exc
           /\ pc' = IF r.exc = "" THEN "parsed" ELSE "raised"
    /\ UNCHANGED <<source, content, gltf>>
    /\ UNCHANGED <<peer, botVars, serverVars>>

Arrays ==
    [positions |-> positions, rotations |-> rotations, sizes |-> sizes, colors |-> colors,
     transparencies |-> transparencies, blocks |-> blocks, block_count |-> block_count]

\* export_to_gltf without its guard on empty positions: an empty document is dumped
\* and a pair is returned
ExportToGltf_AlwaysWrites ==
    /\ pc = "parsed"
    /\ gltf' = IF Len(positions) = 0
               THEN Written(Skeleton(<<>>), ZeroVec, 0)
               ELSE ExportDocument(Arrays)
    /\ pc' = "exported"
    /\ UNCHANGED <<source, content, raised, positions, rotations, sizes, colors,
                   transparencies, blocks, block_count, truncated>>
    /\ UNCHANGED <<peer, botVars, serverVars>>

\* export_to_gltf negating Z and clamping the sizes in place, in the renderer's own
\* arrays, instead of on copies
ExportToGltf_InPlace ==
    /\ pc = "parsed"
    /\ gltf' = IF Len(positions) = 0 THEN NoGltf ELSE ExportDocument(Arrays)
    /\ positions' = [i \in 1..Len(positions) |-> ConvertPosition(positions[i])]
    /\ sizes' = [i \in 1..Len(sizes) |-> ClampSizes(sizes[i])]
    /\ pc' = "exported"
    /\ UNCHANGED <<source, content, raised, rotations, colors,
                   transparencies, blocks, block_count, truncated>>
    /\ UNCHANGED <<peer, botVars, serverVars>>

ExportToGltf ==
    /\ pc = "parsed"
    /\ gltf' = IF Len(positions) = 0 THEN NoGltf ELSE ExportDocument(Arrays)
    /\ pc' = "exported"
    /\ UNCHANGED <<source, content, raised, positions, rotations, sizes, colors,
                   transparencies, blocks, block_count, truncated>>
    /\ UNCHANGED <<peer, botVars, serverVars>>

Next == ParseBuildFile \/ ExportToGltf

Spec == Init /\ [][Next]_vars

-----------------------------------------------------------------------------
(* Build files for the exporter: dict-format blocks that differ from a base block
   in their rotation, their position, their material or their size *)

\* the rotations, in degrees, all multiples of 90
ExportRotations ==
    {JVec(9000, 0, 0), JVec(0, 9000, 0), JVec(0, 0, 9000),
     JVec(9000, 9000, 0), JVec(0, 9000, 9000), JVec(9000, 0, 9000),
     JVec(9000, 9000, 9000), JVec(18000, 0, 0), JVec(0, 0, -9000),
     JVec(27000, 18000, 9000)}

EPos == JVec(100, 200, 300)

ERot == JVec(0, 0, 0)

ESize == JVec(200, 400, 600)

ERed == JVec(25500, 0, 0)

ExportBlocks ==
    {DBlock(EPos, ERot, ESize, ERed, Absent)}
    \cup {DBlock(EPos, r, ESize, ERed, Absent) : r \in ExportRotations}
    \cup {DBlock(p, ERot, ESize, ERed, Absent) : p \in {JVec(0, 0, 0), JVec(200, 0, 1000)}}
    \cup {DBlock(EPos, ERot, ESize, ERed, tr) : tr \in {JNum(50), JNum(100), JNum(200), JNum(-300)}}
    \cup {DBlock(EPos, ERot, ESize, JVec(0, 25500, 0), Absent),
          DBlock(EPos, ERot, LSize, ERed, Absent)}

ExportFiles == {OneType("Block", bs) : bs \in SeqsUpTo(ExportBlocks, MaxElems)}

\* the renderer constructed on one of the exporter's build files
InitExport ==
    /\ \E j \in ExportFiles : source = <<>> /\ content = JsonFile(j)
    /\ pc = "start"
    /\ raised = ""
    /\ positions = <<>>
    /\ rotations = <<>>
    /\ sizes = <<>>
    /\ colors = <<>>
    /\ transparencies = <<>>
    /\ blocks = <<>>
    /\ block_count = 0
    /\ truncated = FALSE
    /\ gltf = NoGltf
    /\ NoPeer /\ NoRequests /\ NoServerCalls

SpecExport == InitExport /\ [][Next]_vars

-----------------------------------------------------------------------------
(* export_to_gltf called a second time on the same renderer with the same output path *)

ExportToGltfAgain ==
    /\ pc = "exported"
    /\ gltf' = IF Len(positions) = 0 THEN NoGltf ELSE ExportDocument(Arrays)
    /\ pc' = "exported_again"
    /\ UNCHANGED <<source, content, raised, positions, rotations, sizes, colors,
                   transparencies, blocks, block_count, truncated>>
    /\ UNCHANGED <<peer, botVars, serverVars>>

NextRerun == ParseBuildFile \/ ExportToGltf \/ ExportToGltfAgain

SpecRerun == InitExport /\ [][NextRerun]_vars

-----------------------------------------------------------------------------

(* Two GLTFRenderer instances, each on its own build file and output path, whose
   parse_build_file and export_to_gltf calls interleave *)

PairFiles ==
    {JsonFile(OneType("Block", <<b>>)) : b \in ExportBlocks}
    \cup {JsonFile(OneType("Block", <<DBlock(EPos, ERot, ESize, ERed, Absent),
                                      DBlock(EPos, ERot, ESize, ERed, JNum(50))>>)),
          JsonFile(JNull)}
    \cup OtherFiles

InitPair ==
    /\ \E c \in PairFiles : source = <<>> /\ content = c
    /\ pc = "start"
    /\ raised = ""
    /\ positions = <<>>
    /\ rotations = <<>>
    /\ sizes = <<>>
    /\ colors = <<>>
    /\ transparencies = <<>>
    /\ blocks = <<>>
    /\ block_count = 0
    /\ truncated = FALSE
    /\ gltf = NoGltf
    /\ \E c \in PairFiles :
           peer = [pc |-> "start", content |-> c, raised |-> "", arrays |-> EmptyArrays,
                   gltf |-> NoGltf]
    /\ NoRequests /\ NoServerCalls

\* each array of b appended to the corresponding array of a
ConcatArrays(a, b) ==
    [positions |-> a.positions \o b.positions,
     rotations |-> a.rotations \o b.rotations,
     sizes |-> a.sizes \o b.sizes,
     colors |-> a.colors \o b.colors,
     transparencies |-> a.transparencies \o b.transparencies,
     blocks |-> a.blocks \o b.blocks,
     block_count |-> b.block_count]

\* parse_build_file of the second instance if the six lists were class attributes:
\* it appends to the lists the first instance uses too
PeerParseBuildFile_SharedLists ==
    /\ peer.pc = "start"
    /\ \E r \in {ParseOutcome(peer.content)} :
           /\ peer' = [peer EXCEPT !.arrays = ConcatArrays(Arrays, r.arr),
                                   !.raised = r.exc,
                                   !.pc = IF r.exc = "" THEN "parsed" ELSE "raised"]
           /\ positions' = positions \o r.arr.positions
           /\ rotations' = rotations \o r.arr.rotations
           /\ sizes' = sizes \o r.arr.sizes
           /\ colors' = colors \o r.arr.colors
           /\ transparencies' = transparencies \o r.arr.transparencies
           /\ blocks' = blocks \o r.arr.blocks
    /\ UNCHANGED <<source, content, pc, raised, block_count, truncated, gltf>>
    /\ UNCHANGED <<botVars, serverVars>>

\* parse_build_file of the second instance: it fills the lists its __init__ created
PeerParseBuildFile ==
    /\ peer.pc = "start"
    /\ \E r \in {ParseOutcome(peer.content)} :
           peer' = [peer EXCEPT !.arrays = r.arr,
                                !.raised = r.exc,
                                !.pc = IF r.exc = "" THEN "parsed" ELSE "raised"]
    /\ UNCHANGED <<rendererVars, botVars, serverVars>>

\* export_to_gltf of the second instance, to its own output path
PeerExportToGltf ==
    /\ peer.pc = "parsed"
    /\ peer' = [peer EXCEPT !.gltf = IF Len(peer.arrays.positions) = 0 THEN NoGltf
                                     ELSE ExportDocument(peer.arrays),
                            !.pc = "exported"]
    /\ UNCHANGED <<rendererVars, botVars, serverVars>>

NextPair == ParseBuildFile \/ ExportToGltf \/ PeerParseBuildFile \/ PeerExportToGltf

SpecPair == InitPair /\ [][NextPair]_vars

-----------------------------------------------------------------------------

(* utils.get_active_server_url, called again and again while the two web servers go
   down and come back between the calls *)

MaxCalls == 3

WEB_SERVER_URL_PRIMARY == "primary"

WEB_SERVER_URL_FALLBACK == "fallback"

\* check_web_server_health(server_url): GET {url}/health answered with status 200;
\* without an url it asks the primary
CheckWebServerHealth(server_url, up) ==
    IF server_url = WEB_SERVER_URL_FALLBACK THEN up.fallback ELSE up.primary

\* get_active_server_url: the url it returns and the value it leaves in
\* _current_server_url
ActiveServerUrl(current, up) ==
    IF current # None /\ CheckWebServerHealth(current, up)
    THEN [url |-> current, current |-> current]
    ELSE IF CheckWebServerHealth(WEB_SERVER_URL_PRIMARY, up)
    THEN [url |-> WEB_SERVER_URL_PRIMARY, current |-> WEB_SERVER_URL_PRIMARY]
    ELSE IF CheckWebServerHealth(WEB_SERVER_URL_FALLBACK, up)
    THEN [url |-> WEB_SERVER_URL_FALLBACK, current |-> WEB_SERVER_URL_FALLBACK]
    ELSE [url |-> WEB_SERVER_URL_PRIMARY, current |-> None]

\* one call of get_active_server_url; the servers' health does not change during it
GetActiveServerUrl ==
    /\ Len(calls) < MaxCalls
    /\ \E r \in {ActiveServerUrl(current_server_url, server_up)} :
           /\ current_server_url' = r.current
           /\ calls' = Append(calls, [returned |-> r.url, up |-> server_up,
                                      cached |-> r.current])
    /\ UNCHANGED <<server_up, rendererVars, peer, botVars>>

\* a web server stops answering /health with 200
ServerGoesDown ==
    /\ \E s \in {"primary", "fallback"} :
           /\ server_up[s]
           /\ server_up' = [server_up EXCEPT ![s] = FALSE]
    /\ UNCHANGED <<current_server_url, calls, rendererVars, peer, botVars>>

\* a web server answers /health with 200 again
ServerComesBack ==
    /\ \E s \in {"primary", "fallback"} :
           /\ ~server_up[s]
           /\ server_up' = [server_up EXCEPT ![s] = TRUE]
    /\ UNCHANGED <<current_server_url, calls, rendererVars, peer, botVars>>

InitServer == NoRenderer /\ NoPeer /\ NoRequests /\ NoServerCalls

NextServer == GetActiveServerUrl \/ ServerGoesDown \/ ServerComesBack

SpecServer == InitServer /\ [][NextServer]_vars

-----------------------------------------------------------------------------

(* bot.py, render_command: two render requests handled by one event loop.  A request
   runs without interruption from one await to the next, so there is one action for
   each stretch of code between two awaits; the prefix command render_prefix has the
   same stretches.  Attachment bytes are indices into BotBuilds, and the SHA-1 hash of
   an attachment is represented by the same index. *)

Requests == {1, 2}

\* the attachments: two builds of one element each, a file without blocks, and a file
\* on which parse_build_file raises
BotBuilds ==
    << JsonFile(OneType("Block", <<DBlock(EPos, ERot, ESize, ERed, Absent)>>)),
       JsonFile(OneType("Block", <<DBlock(JVec(0, 0, 0), ERot, ESize, ERed, JNum(50))>>)),
       [text |-> <<"hello">>, is_json |-> FALSE, json |-> JNull],
       JsonFile(JNull) >>

Filenames == {"a.build", "b.build"}

\* generate_model_id(): 12 random characters, taken to differ between the requests
GenerateModelId(r) == <<"model_1", "model_2">>[r]

\* TEMP_DIR / f"temp_{build_file.filename}"
BuildPath(filename) == <<"temp_", filename>>

\* TEMP_DIR / model_id; the model stores the directory as one entry, holding the
\* build the exported document was made from
GltfDir(model_id) == <<"dir", model_id>>

Paths == {BuildPath(f) : f \in Filenames} \cup {GltfDir(GenerateModelId(r)) : r \in Requests}

\* calculate_build_hash(build_content)
CalculateBuildHash(build_content) == build_content

\* check_build_cache(build_hash): whether the backend knows a model for the hash
CheckBuildCache(build_hash) == build_hash \in cache

\* a path at which nothing is stored
NoFile == [bytes |-> 0, by |-> 0]

\* path.is_file() or path.is_dir()
Exists(fs, path) == fs[path].by # 0

\* read of the renderer: nothing read yet, and the file that could not be opened
NotRead == 0

Missing == -1

\* cleanup_temp_files(path): unlink the file or remove the directory, if it is there
CleanupTempFiles(fs, path) == [fs EXCEPT ![path] = NoFile]

NewRequest(filename, build_content) ==
    [pc |-> "check_cache",
     filename |-> filename,
     build_content |-> build_content,
     build_hash |-> CalculateBuildHash(build_content),
     cached |-> FALSE,
     wrote |-> FALSE,
     model_id |-> None,
     read |-> NotRead,
     parse_returned |-> FALSE,
     positions |-> 0,
     exported |-> FALSE,
     uploaded |-> FALSE,
     viewer_url |-> FALSE,
     reply |-> None]

InitBot ==
    /\ \E b1 \in 1..Len(BotBuilds) : \E b2 \in 1..Len(BotBuilds) : \E f2 \in Filenames :
           requests = <<NewRequest("a.build", b1), NewRequest(f2, b2)>>
    /\ files = [p \in Paths |-> NoFile]
    /\ cache = {}
    /\ uploads = {}
    /\ NoRenderer /\ NoPeer /\ NoServerCalls

\* what follows parse_build_file if the handler went on to export whatever was parsed
AfterParse_NoEmptyCheck(outcome) ==
    IF outcome.exc # "" THEN "raised" ELSE "export"

\* what follows parse_build_file in the handler: the except clause, the
\* "No blocks found" reply, or the export
AfterParse(outcome) ==
    IF outcome.exc # "" THEN "raised"
    ELSE IF Len(outcome.arr.positions) = 0 THEN "no_blocks"
    ELSE "export"

\* export_to_gltf on the arrays of a request's renderer
ExportResult(a) == IF Len(a.positions) = 0 THEN NoGltf ELSE ExportDocument(a)

\* build_file.read(), calculate_build_hash and the first check_build_cache, then the
\* memory check: on a hit the request goes to its reply; on a miss it starts writing
\* its temporary build file, or, with memory above 85%, sleeps first
CheckCache(r) ==
    /\ requests[r].pc = "check_cache"
    /\ IF CheckBuildCache(requests[r].build_hash)
       THEN requests' = [requests EXCEPT ![r].cached = TRUE, ![r].model_id = "cached",
                                         ![r].viewer_url = TRUE, ![r].pc = "reply"]
       ELSE \E next \in {"wait", "write"} :
                requests' = [requests EXCEPT ![r].pc = next]
    /\ UNCHANGED <<files, cache, uploads, rendererVars, peer, serverVars>>

\* asyncio.sleep(0.5) and the second check_build_cache of the high-memory path
WaitAndCheckCache(r) ==
    /\ requests[r].pc = "wait"
    /\ IF CheckBuildCache(requests[r].build_hash)
       THEN requests' = [requests EXCEPT ![r].cached = TRUE, ![r].model_id = "cached",
                                         ![r].viewer_url = TRUE, ![r].pc = "reply"]
       ELSE requests' = [requests EXCEPT ![r].pc = "write"]
    /\ UNCHANGED <<files, cache, uploads, rendererVars, peer, serverVars>>

\* write_file_async(build_path, build_content)
WriteBuildFile(r) ==
    /\ requests[r].pc = "write"
    /\ files' = [files EXCEPT ![BuildPath(requests[r].filename)] =
                     [bytes |-> requests[r].build_content, by |-> r]]
    /\ requests' = [requests EXCEPT ![r].wrote = TRUE, ![r].pc = "parse"]
    /\ UNCHANGED <<cache, uploads, rendererVars, peer, serverVars>>

\* the renderer cannot open build_path: FileNotFoundError reaches the except clause of
\* the handler, which replies and returns
ParseMissingFile(r) ==
    /\ requests[r].pc = "parse"
    /\ ~Exists(files, BuildPath(requests[r].filename))
    /\ requests' = [requests EXCEPT ![r].model_id = GenerateModelId(r),
                                    ![r].read = Missing,
                                    ![r].reply = "error",
                                    ![r].pc = "done"]
    /\ UNCHANGED <<files, cache, uploads, rendererVars, peer, serverVars>>

\* generate_model_id, GLTFRenderer(build_path), parse_build_file, and, for at least
\* one element, gltf_dir.mkdir, export_to_gltf and create_viewer_html
ParseAndExport(r) ==
    /\ requests[r].pc = "parse"
    /\ Exists(files, BuildPath(requests[r].filename))
    /\ \E bytes \in {files[BuildPath(requests[r].filename)].bytes} :
       \E outcome \in {ParseOutcome(BotBuilds[bytes])} :
       \E after \in {AfterParse(outcome)} :
           /\ requests' =
                  [requests EXCEPT
                      ![r].model_id = GenerateModelId(r),
                      ![r].read = bytes,
                      ![r].parse_returned = (outcome.exc = ""),
                      ![r].positions = Len(outcome.arr.positions),
                      ![r].exported = (after = "export"),
                      ![r].reply = IF after = "raised" THEN "error" ELSE None,
                      ![r].pc = CASE after = "raised" -> "done"
                                  [] after = "no_blocks" -> "no_blocks"
                                  [] after = "export" -> "html"]
           /\ files' = IF after = "export" /\ ExportResult(outcome.arr).written
                       THEN [files EXCEPT ![GltfDir(GenerateModelId(r))] =
                                [bytes |-> bytes, by |-> r]]
                       ELSE files
    /\ UNCHANGED <<cache, uploads, rendererVars, peer, serverVars>>

\* preparing_message.edit with "No blocks found in build file.", then
\* cleanup_temp_files(build_path) and return
NoBlocksReply(r) ==
    /\ requests[r].pc = "no_blocks"
    /\ files' = CleanupTempFiles(files, BuildPath(requests[r].filename))
    /\ requests' = [requests EXCEPT ![r].reply = "no_blocks", ![r].pc = "done"]
    /\ UNCHANGED <<cache, uploads, rendererVars, peer, serverVars>>

\* write_file_async(html_path, html_content)
WriteViewerHtml(r) ==
    /\ requests[r].pc = "html"
    /\ requests' = [requests EXCEPT ![r].pc = "check_again"]
    /\ UNCHANGED <<files, cache, uploads, rendererVars, peer, serverVars>>

\* the check_build_cache made just before the upload
CheckCacheBeforeUpload(r) ==
    /\ requests[r].pc = "check_again"
    /\ IF CheckBuildCache(requests[r].build_hash)
       THEN requests' = [requests EXCEPT ![r].cached = TRUE, ![r].model_id = "cached",
                                         ![r].pc = "skip_upload"]
       ELSE requests' = [requests EXCEPT ![r].pc = "upload"]
    /\ UNCHANGED <<files, cache, uploads, rendererVars, peer, serverVars>>

\* "Cache hit before upload": get_active_server_url, then both cleanups
SkipUpload(r) ==
    /\ requests[r].pc = "skip_upload"
    /\ files' = CleanupTempFiles(CleanupTempFiles(files, BuildPath(requests[r].filename)),
                                 GltfDir(GenerateModelId(r)))
    /\ requests' = [requests EXCEPT ![r].viewer_url = TRUE, ![r].pc = "reply"]
    /\ UNCHANGED <<cache, uploads, rendererVars, peer, serverVars>>

\* upload_gltf_to_server, which returns the viewer url or None, then both cleanups;
\* a successful upload registers the build hash with the backend
UploadGltfToServer(r) ==
    /\ requests[r].pc = "upload"
    /\ \E ok \in BOOLEAN :
           /\ uploads' = IF ok
                         THEN uploads \cup {[by |-> r, build_hash |-> requests[r].build_hash]}
                         ELSE uploads
           /\ cache' = IF ok THEN cache \cup {requests[r].build_hash} ELSE cache
           /\ requests' = [requests EXCEPT ![r].uploaded = ok, ![r].viewer_url = ok,
                                           ![r].pc = IF ok THEN "reply" ELSE "health"]
    /\ files' = CleanupTempFiles(CleanupTempFiles(files, BuildPath(requests[r].filename)),
                                 GltfDir(GenerateModelId(r)))
    /\ UNCHANGED <<rendererVars, peer, serverVars>>

\* "if not viewer_url": check_web_server_health; with the server up the viewer url is
\* built from model_id, otherwise "Web Server Unavailable", both cleanups and return
CheckHealthAfterUpload(r) ==
    /\ requests[r].pc = "health"
    /\ \E server_available \in BOOLEAN :
           IF server_available
           THEN /\ requests' = [requests EXCEPT ![r].viewer_url = TRUE, ![r].pc = "reply"]
                /\ files' = files
           ELSE /\ requests' = [requests EXCEPT ![r].reply = "unavailable", ![r].pc = "done"]
                /\ files' = CleanupTempFiles(
                                CleanupTempFiles(files, BuildPath(requests[r].filename)),
                                GltfDir(GenerateModelId(r)))
    /\ UNCHANGED <<cache, uploads, rendererVars, peer, serverVars>>

\* get_usage_stats and the "Build Rendered" embed
ReplyRendered(r) ==
    /\ requests[r].pc = "reply"
    /\ requests' = [requests EXCEPT ![r].reply = "rendered", ![r].pc = "done"]
    /\ UNCHANGED <<files, cache, uploads, rendererVars, peer, serverVars>>

NextBot ==
    \E r \in Requests :
        \/ CheckCache(r)
        \/ WaitAndCheckCache(r)
        \/ WriteBuildFile(r)
        \/ ParseMissingFile(r)
        \/ ParseAndExport(r)
        \/ NoBlocksReply(r)
        \/ WriteViewerHtml(r)
        \/ CheckCacheBeforeUpload(r)
        \/ SkipUpload(r)
        \/ UploadGltfToServer(r)
        \/ CheckHealthAfterUpload(r)
        \/ ReplyRendered(r)

SpecBot == InitBot /\ [][NextBot]_vars

-----------------------------------------------------------------------------

(* What the claims are stated over *)

\* parse_build_file has returned normally
ParseReturned == pc \in {"parsed", "exported"}

SixLengths ==
    {Len(positions), Len(rotations), Len(sizes), Len(colors),
     Len(transparencies), Len(blocks)}

SameLength == Cardinality(SixLengths) = 1

AllEmpty == SixLengths = {0}

\* the file is one of the generated delimited-text files and is detected as such
DelimitedText == Len(source) > 0 /\ Contains(content.text, "/")

\* the records of a delimited-text file that have at least 5 fields
Kept == SelectSeq(source, LAMBDA rec : Len(rec) >= 5)

AllNumeric(field) == \A i \in 1..Len(field) : field[i] \in NumLits

\* what the record's author meant by a position or rotation field
WantVec(field) ==
    IF Len(field) = 3 /\ AllNumeric(field)
    THEN <<LiteralValue(field[1]), LiteralValue(field[2]), LiteralValue(field[3])>>
    ELSE <<0, 0, 0>>

\* absolute value, then clamp to [0.01, 10000.0]
WantClamp(x) ==
    LET m == IF x < 0 THEN 0 - x ELSE x
    IN  IF m < 1 THEN 1 ELSE IF m > 1000000 THEN 1000000 ELSE m

WantSize(field) ==
    IF Len(field) = 3 /\ AllNumeric(field)
    THEN <<WantClamp(LiteralValue(field[1])), WantClamp(LiteralValue(field[2])),
           WantClamp(LiteralValue(field[3]))>>
    ELSE <<100, 100, 100>>

\* a colour field of exactly three numbers, as written; otherwise the type's default
WantColorExact(field, block_type) ==
    IF Len(field) = 3 /\ AllNumeric(field)
    THEN <<255 * LiteralValue(field[1]), 255 * LiteralValue(field[2]),
           255 * LiteralValue(field[3])>>
    ELSE GetDefaultColor(block_type)

\* a colour field of three or more numbers: its first three, as written; otherwise
\* the type's default
WantColorFirst3(field, block_type) ==
    IF Len(field) >= 3 /\ AllNumeric(field)
    THEN <<255 * LiteralValue(field[1]), 255 * LiteralValue(field[2]),
           255 * LiteralValue(field[3])>>
    ELSE GetDefaultColor(block_type)

\* a JSON list of exactly three numbers
IsNumVec(v) ==
    v.t = "list" /\ Len(v.items) = 3 /\ \A i \in 1..3 : v.items[i].t = "num"

NumVec(v) == <<v.items[1].n, v.items[2].n, v.items[3].n>>

\* the file is JSON in the list-of-lists format and its first record is a 7-entry list
ListOfLists ==
    /\ content.is_json
    /\ ~IsTextFormat(content.text)
    /\ content.json.t = "list"
    /\ Len(content.json.items) > 0
    /\ content.json.items[1].t = "list"
    /\ Len(content.json.items[1].items) >= 7
    /\ ~(Len(content.json.items) = 2 /\ content.json.items[2].t = "dict")

FirstRecord == content.json.items[1].items

\* the file is a JSON dict whose first value is a list that starts with a block dict
DictOfLists ==
    /\ content.is_json
    /\ ~IsTextFormat(content.text)
    /\ content.json.t = "dict"
    /\ Len(content.json.keys) > 0
    /\ content.json.items[1].t = "list"
    /\ Len(content.json.items[1].items) > 0
    /\ content.json.items[1].items[1].t = "dict"

FirstBlock == content.json.items[1].items[1]

FirstBlockType == content.json.keys[1]

\* a JSON colour value a reader can take three numbers from
ColourUsable(v) ==
    \/ v.t = "list" /\ Len(v.items) >= 3 /\ \A i \in 1..3 : v.items[i].t = "num"
    \/ v.t = "str" /\ Len(Split(v.s, ",")) >= 3
                   /\ \A part \in Range(Split(v.s, ",")) :
                         Len(part) = 1 /\ part[1] \in NumLits

-----------------------------------------------------------------------------
(* Claims C1 .. C10 *)

\* C1: after parse_build_file returns, on any file content, the six arrays positions,
\* rotations, sizes, colors, transparencies and blocks all have the same length.
C1_SameLengthAfterParse == ParseReturned => SameLength

\* C2: parse_build_file never raises on the content of a readable file; content that
\* matches none of the four formats (any other valid JSON value included) leaves all
\* six arrays empty and returns normally.
C2_ParseNeverRaises ==
    /\ pc # "raised"
    /\ (/\ pc # "start"
        /\ ~IsTextFormat(content.text)
        /\ content.is_json
        /\ content.json.t \notin {"list", "dict"}) => (ParseReturned /\ AllEmpty)

\* C3: each parsed source element appends exactly one entry to each of the six arrays
\* (block_count counts the parsed elements), and the array-length-mismatch repair
\* branch at the end of parse_build_file is never taken.
C3_OneEntryPerElement ==
    ParseReturned => (~truncated /\ SixLengths = {block_count})

\* C4: when export_to_gltf builds geometry, the six arrays have been truncated to their
\* shortest common length on every format path: every element a cuboid is built for
\* lies within all six arrays.
C4_TruncatedBeforeExport ==
    (pc = "exported" /\ gltf.written) =>
        \A k \in 1..Len(gltf.meshes[1].primitives) :
            \A j \in 1..Len(gltf.meshes[1].primitives[k].cuboids) :
                \A n \in SixLengths : gltf.meshes[1].primitives[k].cuboids[j].index <= n

\* C5: a file whose whole content is the single delimited-text record
\* 0,0,0:0,0,0:0.5,0.5,0.5:1,1,1:Block parses to exactly one element (position (0,0,0),
\* rotation (0,0,0), colour (0.5,0.5,0.5), size (1,1,1), type Block) and exports to one
\* cuboid at the converted position (0,0,0) with the all-zero (identity) rotation.
C5_RoundTripRecord ==
    content.text = <<"0", ",", "0", ",", "0", ":", "0", ",", "0", ",", "0", ":",
                     "0.5", ",", "0.5", ",", "0.5", ":", "1", ",", "1", ",", "1", ":",
                     "Block">>
    => /\ ParseReturned =>
            /\ positions = <<(<<0, 0, 0>>)>>
            /\ rotations = <<(<<0, 0, 0>>)>>
            /\ colors = <<(<<12750, 12750, 12750>>)>>
            /\ sizes = <<(<<100, 100, 100>>)>>
            /\ transparencies = <<0>>
            /\ blocks = <<(<<"Block">>)>>
       /\ pc = "exported" =>
            /\ gltf.written
            /\ Len(gltf.meshes[1].primitives) = 1
            /\ Len(gltf.meshes[1].primitives[1].cuboids) = 1
            /\ gltf.meshes[1].primitives[1].cuboids[1].position = <<0, 0, 0>>
            /\ gltf.meshes[1].primitives[1].cuboids[1].rotation = <<0, 0, 0>>

\* C6 as stated: in the delimited-text format every record with at least 5 fields gives
\* exactly one element, in order; a position, rotation, size or colour field that is
\* non-numeric or does not have 3 components is defaulted ((0,0,0), (0,0,0), (1,1,1),
\* type-default colour) and the other fields are stored as parsed.
C6_TextFieldDefaultsExactly3 ==
    (ParseReturned /\ DelimitedText) =>
        /\ SixLengths = {Len(Kept)}
        /\ \A i \in 1..Len(Kept) :
              /\ i <= Len(positions) => positions[i] = WantVec(Kept[i][1])
              /\ i <= Len(rotations) => rotations[i] = WantVec(Kept[i][2])
              /\ i <= Len(colors) => colors[i] = WantColorExact(Kept[i][3], Kept[i][5])
              /\ i <= Len(sizes) => sizes[i] = WantSize(Kept[i][4])
              /\ i <= Len(blocks) => blocks[i] = Kept[i][5]

\* C6 amended: as C6, except that the colour field is defaulted only when it has fewer
\* than 3 components or a non-numeric component; a colour field of more than 3 numbers
\* is stored as its first three numbers.
C6_TextFieldDefaults ==
    (ParseReturned /\ DelimitedText) =>
        /\ SixLengths = {Len(Kept)}
        /\ \A i \in 1..Len(Kept) :
              /\ i <= Len(positions) => positions[i] = WantVec(Kept[i][1])
              /\ i <= Len(rotations) => rotations[i] = WantVec(Kept[i][2])
              /\ i <= Len(colors) => colors[i] = WantColorFirst3(Kept[i][3], Kept[i][5])
              /\ i <= Len(sizes) => sizes[i] = WantSize(Kept[i][4])
              /\ i <= Len(blocks) => blocks[i] = Kept[i][5]
              /\ i <= Len(transparencies) => transparencies[i] = 0

\* C6 witness: a two-record file whose first record has a non-numeric position and whose
\* second record has a four-number colour has been parsed into two elements.
C6_Witness ==
    /\ pc = "parsed"
    /\ DelimitedText
    /\ Len(source) = 2
    /\ Len(source[1]) = 5 /\ source[1][1] = <<"x", "2", "3">>
    /\ Len(source[2]) = 5 /\ source[2][3] = <<"0.5", "0.5", "0.5", "1">>
    /\ source[2][5] = <<"GoldBlock">>
    /\ positions = <<(<<0, 0, 0>>), (<<100, 200, 300>>)>>
    /\ rotations = <<(<<0, 9000, 0>>), (<<0, 9000, 0>>)>>
    /\ colors[2] = <<12750, 12750, 12750>>

\* C7: in the list-of-lists format defaults are per field: a record whose position entry
\* is unusable (not a list, wrong length, or with a non-numeric value) but whose rotation
\* entry is a valid 3-number list is stored as one element with position (0,0,0) and its
\* own rotation, size and colour.
C7_ListDefaultsPerField ==
    (ParseReturned /\ ListOfLists /\ ~IsNumVec(FirstRecord[2]) /\ IsNumVec(FirstRecord[3])) =>
        /\ Len(positions) >= 1 /\ positions[1] = <<0, 0, 0>>
        /\ Len(rotations) >= 1 /\ rotations[1] = NumVec(FirstRecord[3])
        /\ (Len(sizes) >= 1 /\ IsNumVec(FirstRecord[5])) =>
              sizes[1] = <<WantClamp(FirstRecord[5].items[1].n),
                           WantClamp(FirstRecord[5].items[2].n),
                           WantClamp(FirstRecord[5].items[3].n)>>
        /\ Len(blocks) >= 1 /\ blocks[1] = FirstRecord[1].s
        /\ Len(content.json.items) = 1 => SixLengths = {1}

\* C8: every size component the parser stores, in every format, is the absolute value of
\* the source value clamped to [0.01, 10000.0], or the default 1: none is zero, negative
\* or above 10000, and source size (0, 50000, -3) is stored as (0.01, 10000.0, 3.0).
C8_SizesClamped ==
    /\ \A i \in 1..Len(sizes) : \A d \in 1..3 : sizes[i][d] >= 1 /\ sizes[i][d] <= 1000000
    /\ (ParseReturned /\ DelimitedText) =>
          \A i \in 1..Len(Kept) : i <= Len(sizes) /\ sizes[i] = WantSize(Kept[i][4])
    /\ (ParseReturned /\ ListOfLists) =>
          /\ Len(sizes) >= 1
          /\ IF IsNumVec(FirstRecord[5])
             THEN sizes[1] \in {<<100, 100, 100>>,
                                <<WantClamp(FirstRecord[5].items[1].n),
                                  WantClamp(FirstRecord[5].items[2].n),
                                  WantClamp(FirstRecord[5].items[3].n)>>}
             ELSE sizes[1] = <<100, 100, 100>>
          /\ FirstRecord = LRec("GoldBlock", LPos, LRot, LSize, LCol).items =>
                sizes[1] = <<1, 1000000, 300>>
    /\ (ParseReturned /\ DictOfLists) =>
          /\ Len(sizes) >= 1
          /\ sizes[1] \in {<<100, 100, 100>>, <<1, 1000000, 300>>}
          /\ FirstBlock \in {DBlock(DPos, DRot, DSize, DCol, Absent),
                             DBlock(DPos, DRot, LSize, DCol, Absent)} =>
                sizes[1] = <<1, 1000000, 300>>

\* C8 witness: a dict-format file whose first block gives Size as the list [0, 50000, -3]
\* has been parsed and the first stored size is (0.01, 10000.0, 3.0).
C8_Witness ==
    /\ pc = "parsed"
    /\ DictOfLists
    /\ DictGet(FirstBlock, <<"Size">>, JNull) = JVec(0, 5000000, -300)
    /\ Len(sizes) >= 1
    /\ sizes[1] = <<1, 1000000, 300>>

\* C9: in every input format a colour component greater than 1 is divided by 255 and a
\* component of at most 1 is kept, so a source colour given in the 0..255 range (as all
\* colours of the generated files are) is stored with all three components in [0, 1].
C9_ColoursNormalised ==
    ParseReturned =>
        \A i \in 1..Len(colors) : \A d \in 1..3 : colors[i][d] >= 0 /\ colors[i][d] <= 25500

\* C10: in every format an element whose colour is missing or cannot be parsed is stored
\* with the colour the type-tag default table gives for that element's own type tag.
C10_DefaultColourByType ==
    /\ (ParseReturned /\ DictOfLists
        /\ ~ColourUsable(DictGet(FirstBlock, <<"Color">>, JNull))) =>
            (Len(colors) >= 1 /\ colors[1] = GetDefaultColor(FirstBlockType))
    /\ (ParseReturned /\ ListOfLists /\ FirstRecord[1].t = "str"
        /\ ~ColourUsable(FirstRecord[7])) =>
            (Len(colors) >= 1 /\ colors[1] = GetDefaultColor(FirstRecord[1].s))
    /\ (ParseReturned /\ DelimitedText) =>
            \A i \in 1..Len(Kept) :
                (i <= Len(colors) /\ ~(Len(Kept[i][3]) >= 3 /\ AllNumeric(Kept[i][3]))) =>
                    colors[i] = GetDefaultColor(Kept[i][5])

-----------------------------------------------------------------------------
(* Claims C11 to C20: export_to_gltf *)

\* C11: export_to_gltf called with zero elements is a no-op: nothing is written to the
\* output path, no document is built (no scene, node, mesh, material, accessor,
\* bufferView or buffer) and no (center, extent) pair is returned.
C11_EmptyExportIsNoOp ==
    (pc = "exported" /\ Len(positions) = 0) =>
        /\ ~gltf.written
        /\ ~gltf.returned
        /\ gltf.scenes = <<>> /\ gltf.nodes = <<>> /\ gltf.meshes = <<>>
        /\ gltf.materials = <<>> /\ gltf.accessors = <<>>
        /\ gltf.bufferViews = <<>> /\ gltf.buffers = <<>>

\* C11 witness: a build file that parsed to zero elements has been exported.
C11_Witness ==
    /\ pc = "exported"
    /\ Len(positions) = 0
    /\ ~gltf.written

\* a document has been written
Exported == pc = "exported" /\ gltf.written

\* the primitives of the written document
Primitives == gltf.meshes[1].primitives

\* the elements the written document holds geometry for
AllCuboids ==
    UNION {{Primitives[k].cuboids[j] : j \in 1..Len(Primitives[k].cuboids)} :
              k \in 1..Len(Primitives)}

\* the sum of component d of the first n of a sequence of 3-vectors
RECURSIVE SumAxis(_, _, _)
SumAxis(vs, d, n) == IF n = 0 THEN 0 ELSE vs[n][d] + SumAxis(vs, d, n - 1)

\* the vertices written for the j-th element of primitive k: 24 to an element
ElementVertices(k, j) ==
    {gltf.buffers[k].vertices[v] : v \in (24 * (j - 1) + 1)..(24 * j)}

\* the source position (x, y, z) converted as the claim says, in hundredths
WantPosition(p) == <<p[1], p[2], 0 - p[3]>>

\* the orders in which three axes can be taken
Perms3 == {f \in [1..3 -> 1..3] : {f[1], f[2], f[3]} = 1..3}

\* the size the exporter uses for element i, in hundredths
ExportSize(i) == IF i <= Len(sizes) THEN sizes[i] ELSE <<100, 100, 100>>

\* C12: every exported cuboid is centred at its element's source position with only Z
\* negated: the 8 corners (in half hundredths) average to (x, y, -z), each corner is that
\* centre plus or minus the three half extents of the element's size taken in some order
\* (the rotations are multiples of 90 degrees), the 8 corners are distinct, and the
\* vertices written for the element are exactly its corners.
C12_CuboidCentredAtConvertedPosition ==
    Exported =>
        \A k \in 1..Len(Primitives) : \A j \in 1..Len(Primitives[k].cuboids) :
            LET c == Primitives[k].cuboids[j]
                want == WantPosition(positions[c.index])
                size == ExportSize(c.index)
            IN  /\ c.position = want
                /\ \A d \in 1..3 : SumAxis(c.corners, d, 8) = 16 * want[d]
                /\ \A n \in 1..8 :
                      \E perm \in Perms3 :
                          \A d \in 1..3 :
                              Abs(c.corners[n][d] - 2 * want[d]) = size[perm[d]]
                /\ Cardinality({c.corners[n] : n \in 1..8}) = 8
                /\ ElementVertices(k, j) = {c.corners[n] : n \in 1..8}
                /\ positions[c.index] = <<100, 200, 300>> => c.position = <<100, 200, -300>>

\* C12 witness: an element at source position (1, 2, 3) with a rotation that is not zero
\* has been exported, and its cuboid is at (1, 2, -3).
C12_Witness ==
    /\ Exported
    /\ \E c \in AllCuboids :
          /\ positions[c.index] = <<100, 200, 300>>
          /\ c.rotation # <<0, 0, 0>>
          /\ c.position = <<100, 200, -300>>

\* lo is the least and hi the greatest component d over the parsed source positions
IsBounds(d, lo, hi) ==
    /\ \A i \in 1..Len(positions) : lo <= positions[i][d] /\ positions[i][d] <= hi
    /\ \E i \in 1..Len(positions) : positions[i][d] = lo
    /\ \E i \in 1..Len(positions) : positions[i][d] = hi

\* the values component d takes over the parsed source positions
AxisValues(d) == {positions[i][d] : i \in 1..Len(positions)}

\* C13: the center returned by export_to_gltf is, on each axis, the midpoint of the least
\* and the greatest source (pre-conversion) position component, with only the Z component
\* negated afterwards, as each element position is converted; source positions
\* {(0,0,0), (2,0,10)} give the center (1, 0, -5).
C13_CenterIsConvertedMidpoint ==
    Exported =>
        /\ gltf.returned
        /\ \A d \in 1..3 :
              \E lo \in AxisValues(d) : \E hi \in AxisValues(d) :
                  /\ IsBounds(d, lo, hi)
                  /\ 2 * gltf.center[d] = (IF d = 3 THEN 0 - (lo + hi) ELSE lo + hi)
        /\ {positions[i] : i \in 1..Len(positions)} = {<<0, 0, 0>>, <<200, 0, 1000>>} =>
              gltf.center = <<100, 0, -500>>

\* C13 witness: a build with elements at (0,0,0) and (2,0,10) has been exported and the
\* returned center is (1, 0, -5).
C13_Witness ==
    /\ Exported
    /\ {positions[i] : i \in 1..Len(positions)} = {<<0, 0, 0>>, <<200, 0, 1000>>}
    /\ gltf.center = <<100, 0, -500>>

\* the number of quarter turns in an angle of hundredths of a degree, from 0 to 3
QuarterTurns(a) == (a \div 9000) % 4

\* cosine and sine of a whole number of quarter turns
WantCos(a) == <<1, 0, -1, 0>>[QuarterTurns(a) + 1]

WantSin(a) == <<0, 1, 0, -1>>[QuarterTurns(a) + 1]

\* Rz(a) applied to v, with Rz = [[c, s, 0], [-s, c, 0], [0, 0, 1]]
WantAboutZ(v, a) ==
    <<WantCos(a) * v[1] + WantSin(a) * v[2], WantCos(a) * v[2] - WantSin(a) * v[1], v[3]>>

\* Rx(a) applied to v, with Rx = [[1, 0, 0], [0, c, s], [0, -s, c]]
WantAboutX(v, a) ==
    <<v[1], WantCos(a) * v[2] + WantSin(a) * v[3], WantCos(a) * v[3] - WantSin(a) * v[2]>>

\* Ry(a) applied to v, with Ry = [[c, 0, -s], [0, 1, 0], [s, 0, c]]
WantAboutY(v, a) ==
    <<WantCos(a) * v[1] - WantSin(a) * v[3], v[2], WantSin(a) * v[1] + WantCos(a) * v[3]>>

\* Ry(ry) . Rx(rx) . Rz(-rz) applied to v
WantRotate(v, rot) == WantAboutY(WantAboutX(WantAboutZ(v, 0 - rot[3]), rot[1]), rot[2])

\* the rotation the exporter uses for element i, in hundredths of a degree
ExportRotation(i) == IF i <= Len(rotations) THEN rotations[i] ELSE <<0, 0, 0>>

\* C14: the rotation applied to an element with angles (rx, ry, rz) is
\* R = Ry(ry) . Rx(rx) . Rz(-rz) with the three matrices of the claim: each of the 8
\* corners is the centre plus R applied to the corner's local offset, each of the 24
\* normals written for the element is R applied to its face's base normal, and all-zero
\* angles give the identity (the angles are multiples of 90 degrees).
C14_RotationIsRyRxRzNegated ==
    Exported =>
        \A k \in 1..Len(Primitives) : \A j \in 1..Len(Primitives[k].cuboids) :
            LET c == Primitives[k].cuboids[j]
                rot == ExportRotation(c.index)
            IN  /\ \A d \in 1..3 :
                      Column(c.R, d) = WantRotate([e \in 1..3 |-> IF e = d THEN 1 ELSE 0], rot)
                /\ \A n \in 1..8 : \A d \in 1..3 :
                      c.corners[n][d] - 2 * c.position[d]
                          = WantRotate(CornersLocal(c.size)[n], rot)[d]
                /\ \A v \in 1..24 :
                      gltf.buffers[k].normals[24 * (j - 1) + v]
                          = WantRotate(FaceDefs[((v - 1) \div 4) + 1].normal_base, rot)
                /\ rot = <<0, 0, 0>> => c.R = <<<<1, 0, 0>>, <<0, 1, 0>>, <<0, 0, 1>>>>

\* C14 witness: an element rotated by (270, 180, 90) degrees and an element rotated by
\* (0, 0, 90) degrees have each been exported with a matrix that is not the identity.
C14_Witness ==
    /\ Exported
    /\ \E k \in 1..Len(Primitives) : \E j \in 1..Len(Primitives[k].cuboids) :
          /\ ExportRotation(Primitives[k].cuboids[j].index) = <<27000, 18000, 9000>>
          /\ Primitives[k].cuboids[j].R # <<<<1, 0, 0>>, <<0, 1, 0>>, <<0, 0, 1>>>>
    /\ \E k \in 1..Len(Primitives) : \E j \in 1..Len(Primitives[k].cuboids) :
          /\ ExportRotation(Primitives[k].cuboids[j].index) = <<0, 0, 9000>>
          /\ Primitives[k].cuboids[j].R = <<<<0, -1, 0>>, <<1, 0, 0>>, <<0, 0, 1>>>>

\* u - v and u x v for 3-vectors
VecSub(u, v) == <<u[1] - v[1], u[2] - v[2], u[3] - v[3]>>

CrossProduct(u, v) ==
    <<u[2] * v[3] - u[3] * v[2], u[3] * v[1] - u[1] * v[3], u[1] * v[2] - u[2] * v[1]>>

\* u is a positive multiple of the axis-aligned unit vector n
SameDirection(u, n) ==
    /\ Dot(u, n) > 0
    /\ u = <<Dot(u, n) * n[1], Dot(u, n) * n[2], Dot(u, n) * n[3]>>

\* the vertex the t-th index written for primitive k refers to (t from 1)
IndexedVertex(k, t) == gltf.buffers[k].vertices[gltf.buffers[k].indices[t] + 1]

\* the normal written with that vertex
IndexedNormal(k, t) == gltf.buffers[k].normals[gltf.buffers[k].indices[t] + 1]

\* the triangle whose first index is the t-th index of primitive k is wound
\* counter-clockwise about the normal declared for its first vertex
WindingAgrees(k, t) ==
    SameDirection(CrossProduct(VecSub(IndexedVertex(k, t + 1), IndexedVertex(k, t)),
                               VecSub(IndexedVertex(k, t + 2), IndexedVertex(k, t))),
                  IndexedNormal(k, t))

\* the normal declared for the t-th indexed vertex of element j of primitive k points
\* away from the centre of the element, and the vertex lies on that side of the centre
NormalOutward(k, j, t) ==
    Dot(VecSub(IndexedVertex(k, t),
               <<2 * Primitives[k].cuboids[j].position[1],
                 2 * Primitives[k].cuboids[j].position[2],
                 2 * Primitives[k].cuboids[j].position[3]>>),
        IndexedNormal(k, t)) > 0

\* C15: for every face of every exported cuboid the declared normal points outward, and
\* both triangles of the face are wound consistently with it: for each triangle
\* (v0, v1, v2), (v1 - v0) x (v2 - v0) points in the direction of the declared normal.
C15_WindingMatchesOutwardNormals ==
    Exported =>
        \A k \in 1..Len(Primitives) : \A j \in 1..Len(Primitives[k].cuboids) :
            \A tri \in 0..11 :
                /\ \A t \in 1..3 : NormalOutward(k, j, 36 * (j - 1) + 3 * tri + t)
                /\ WindingAgrees(k, 36 * (j - 1) + 3 * tri + 1)

\* the part of C15 that holds: every declared normal points outward
C15_NormalsOutward ==
    Exported =>
        \A k \in 1..Len(Primitives) : \A j \in 1..Len(Primitives[k].cuboids) :
            \A t \in 1..36 : NormalOutward(k, j, 36 * (j - 1) + t)

\* every triangle of every exported cuboid is wound against its declared normal
C15_EveryTriangleInverted ==
    Exported =>
        \A k \in 1..Len(Primitives) : \A j \in 1..Len(Primitives[k].cuboids) :
            \A tri \in 0..11 : ~WindingAgrees(k, 36 * (j - 1) + 3 * tri + 1)

\* the sum of the counts of the POSITION accessors of the first n primitives
RECURSIVE PositionCount(_)
PositionCount(n) ==
    IF n = 0 THEN 0
    ELSE gltf.accessors[Primitives[n].POSITION + 1].count + PositionCount(n - 1)

\* every element has a material of its own
UniqueMaterials == Len(gltf.materials) = Len(positions)

\* C16 as stated: with N >= 1 elements that all have a unique material, the POSITION
\* accessors hold exactly N x 8 vertices in total.
C16_EightVerticesPerElement ==
    (Exported /\ UniqueMaterials) => PositionCount(Len(Primitives)) = 8 * Len(positions)

\* C16 amended: with N >= 1 elements the POSITION accessors hold exactly N x 24 vertices
\* in total (the 8 corners of an element, each written once for each of the 3 faces that
\* meet in it), whether every element has a material of its own or elements share
\* materials; sharing materials lowers the number of primitives, never the number of
\* vertices written per element.
C16_VerticesPerElement ==
    Exported =>
        /\ PositionCount(Len(Primitives)) = 24 * Len(positions)
        /\ Len(Primitives) <= Len(positions)
        /\ \A k \in 1..Len(Primitives) :
              /\ gltf.accessors[Primitives[k].POSITION + 1].count
                    = 24 * Len(Primitives[k].cuboids)
              /\ Len(gltf.buffers[k].vertices) = 24 * Len(Primitives[k].cuboids)
              /\ \A j \in 1..Len(Primitives[k].cuboids) :
                    Cardinality(ElementVertices(k, j)) = 8

\* C16 witness: two elements with a material each have been exported as two
\* primitives with 48 vertices in total.
C16_Witness ==
    /\ Exported
    /\ Len(positions) = 2
    /\ UniqueMaterials
    /\ Len(Primitives) = 2
    /\ PositionCount(Len(Primitives)) = 48

\* two elements sharing one material have been exported as one primitive of 48 vertices
C16_SharedMaterialReached ==
    /\ Exported
    /\ Len(positions) = 2
    /\ Len(Primitives) = 1
    /\ PositionCount(Len(Primitives)) = 48

\* the (r, g, b, transparency) of element i as the exporter reads it
WantKey(i) ==
    <<(IF i <= Len(colors) THEN colors[i] ELSE <<12750, 12750, 12750>>)[1],
      (IF i <= Len(colors) THEN colors[i] ELSE <<12750, 12750, 12750>>)[2],
      (IF i <= Len(colors) THEN colors[i] ELSE <<12750, 12750, 12750>>)[3],
      IF i <= Len(transparencies) THEN transparencies[i] ELSE 0>>

\* the (r, g, b, transparency) that material number k (from 1) was made for
KeyOfMaterial(k) ==
    <<gltf.materials[k].color[1], gltf.materials[k].color[2], gltf.materials[k].color[3],
      100 - gltf.materials[k].alpha>>

\* the places (primitive, position in it) where geometry of element i was written
PlacesOf(i) ==
    {kj \in UNION {{<<k, j>> : j \in 1..Len(Primitives[k].cuboids)} :
                      k \in 1..Len(Primitives)} :
        Primitives[kj[1]].cuboids[kj[2]].index = i}

\* C17: the materials are in one-to-one correspondence with the distinct
\* (r, g, b, transparency) keys of the elements, compared by equality; there is one
\* primitive per material; every element's geometry is written exactly once, in the
\* primitive of the material of its key, so two elements with the same colour and
\* transparency, wherever they are, share one material and one primitive.
C17_OneMaterialPerKey ==
    Exported =>
        /\ {KeyOfMaterial(k) : k \in 1..Len(gltf.materials)}
              = {WantKey(i) : i \in 1..Len(positions)}
        /\ Len(gltf.materials) = Cardinality({WantKey(i) : i \in 1..Len(positions)})
        /\ Len(Primitives) = Len(gltf.materials)
        /\ \A i \in 1..Len(positions) :
              /\ Cardinality(PlacesOf(i)) = 1
              /\ \A kj \in PlacesOf(i) :
                    KeyOfMaterial(Primitives[kj[1]].material + 1) = WantKey(i)
        /\ \A i \in 1..Len(positions) : \A h \in 1..Len(positions) :
              WantKey(i) = WantKey(h) =>
                  \A kj \in PlacesOf(i) : \A kh \in PlacesOf(h) : kj[1] = kh[1]

\* C17 witness: two elements with the same colour and transparency at different
\* positions have been exported as one material and one primitive holding both cuboids.
C17_Witness ==
    /\ Exported
    /\ Len(positions) = 2
    /\ positions[1] # positions[2]
    /\ WantKey(1) = WantKey(2)
    /\ Len(gltf.materials) = 1
    /\ Len(Primitives) = 1
    /\ Len(Primitives[1].cuboids) = 2
    /\ Len(gltf.buffers[1].vertices) = 48

\* two elements that differ only in transparency have been exported as two materials
C17_TransparencySplitsReached ==
    /\ Exported
    /\ Len(positions) = 2
    /\ colors[1] = colors[2]
    /\ transparencies[1] # transparencies[2]
    /\ Len(gltf.materials) = 2

\* C18: every written document has one scene, one root node referencing mesh 0 and one
\* mesh with as many primitives as there are materials; primitive k (from 0) references
\* material k and accessors 3k, 3k+1, 3k+2 (POSITION, NORMAL, indices), which reference
\* bufferViews 3k, 3k+1, 3k+2, all in buffer k; every index reference is in range.
C18_DocumentStructure ==
    Exported =>
        /\ Len(gltf.scenes) = 1 /\ gltf.scene = 0 /\ gltf.scenes[1].nodes = <<0>>
        /\ Len(gltf.nodes) = 1 /\ gltf.nodes[1].mesh = 0
        /\ Len(gltf.meshes) = 1
        /\ Len(Primitives) = Len(gltf.materials)
        /\ Len(gltf.accessors) = 3 * Len(Primitives)
        /\ Len(gltf.bufferViews) = 3 * Len(Primitives)
        /\ Len(gltf.buffers) = Len(Primitives)
        /\ \A k \in 0..(Len(Primitives) - 1) :
              /\ Primitives[k + 1].material = k
              /\ Primitives[k + 1].POSITION = 3 * k
              /\ Primitives[k + 1].NORMAL = 3 * k + 1
              /\ Primitives[k + 1].indices = 3 * k + 2
              /\ \A d \in 0..2 :
                    /\ gltf.accessors[3 * k + d + 1].bufferView = 3 * k + d
                    /\ gltf.bufferViews[3 * k + d + 1].buffer = k
        /\ \A p \in 1..Len(Primitives) :
              /\ Primitives[p].material \in 0..(Len(gltf.materials) - 1)
              /\ {Primitives[p].POSITION, Primitives[p].NORMAL, Primitives[p].indices}
                    \subseteq 0..(Len(gltf.accessors) - 1)
        /\ \A x \in 1..Len(gltf.accessors) :
              gltf.accessors[x].bufferView \in 0..(Len(gltf.bufferViews) - 1)
        /\ \A x \in 1..Len(gltf.bufferViews) :
              gltf.bufferViews[x].buffer \in 0..(Len(gltf.buffers) - 1)

\* C18 witness: a document with two materials, two primitives, six accessors, six
\* bufferViews and two buffers has been written.
C18_Witness ==
    /\ Exported
    /\ Len(gltf.materials) = 2
    /\ Len(Primitives) = 2
    /\ Primitives[2].material = 1
    /\ Primitives[2].POSITION = 3
    /\ gltf.accessors[6].bufferView = 5
    /\ gltf.bufferViews[6].buffer = 1
    /\ Len(gltf.buffers) = 2

\* the bytes of one element of an accessor: 3 float32 for VEC3, one uint32 for SCALAR
ElementBytes(accessor) == IF accessor.type = "VEC3" THEN 12 ELSE 4

\* the three bufferViews of primitive k (from 1): positions, normals, indices
View(k, d) == gltf.bufferViews[3 * (k - 1) + d]

\* C19: for each material group the buffer is the position stream, the normal stream
\* and the index stream in this order; each view's byte length is a multiple of 4; the
\* views start at 0, len(positions) and len(positions) + len(normals), do not overlap and
\* end at the buffer's byteLength; each accessor's count times its element size fits in
\* its view; a group of n elements has views of 288n, 288n and 144n bytes.
C19_BufferLayout ==
    Exported =>
        \A k \in 1..Len(Primitives) :
            /\ \A d \in 1..3 : View(k, d).byteLength % 4 = 0 /\ View(k, d).buffer = k - 1
            /\ View(k, 1).byteOffset = 0
            /\ View(k, 2).byteOffset = View(k, 1).byteLength
            /\ View(k, 3).byteOffset = View(k, 1).byteLength + View(k, 2).byteLength
            /\ View(k, 3).byteOffset + View(k, 3).byteLength = gltf.buffers[k].byteLength
            /\ View(k, 1).byteLength = 12 * Len(gltf.buffers[k].vertices)
            /\ View(k, 2).byteLength = 12 * Len(gltf.buffers[k].normals)
            /\ View(k, 3).byteLength = 4 * Len(gltf.buffers[k].indices)
            /\ \A d \in 1..3 :
                  /\ gltf.accessors[3 * (k - 1) + d].byteOffset = 0
                  /\ gltf.accessors[3 * (k - 1) + d].count
                        * ElementBytes(gltf.accessors[3 * (k - 1) + d])
                     <= View(k, d).byteLength
            /\ View(k, 1).byteLength = 288 * Len(Primitives[k].cuboids)
            /\ View(k, 2).byteLength = 288 * Len(Primitives[k].cuboids)
            /\ View(k, 3).byteLength = 144 * Len(Primitives[k].cuboids)

\* C19 witness: a material group of two elements has been written with views of 576,
\* 576 and 288 bytes at offsets 0, 576 and 1152 in a buffer of 1440 bytes.
C19_Witness ==
    /\ Exported
    /\ Len(Primitives[1].cuboids) = 2
    /\ View(1, 1).byteLength = 576 /\ View(1, 1).byteOffset = 0
    /\ View(1, 2).byteLength = 576 /\ View(1, 2).byteOffset = 576
    /\ View(1, 3).byteLength = 288 /\ View(1, 3).byteOffset = 1152
    /\ gltf.buffers[1].byteLength = 1440

\* the transparency of element i as the exporter reads it, in hundredths
ExportTransparency(i) == IF i <= Len(transparencies) THEN transparencies[i] ELSE 0

\* C20: every material of a written document is double sided, and the material of every
\* element has a baseColorFactor alpha of 1 - transparency and alphaMode BLEND exactly
\* when the element's transparency is greater than 0.
C20_MaterialAlphaAndBlend ==
    Exported =>
        /\ \A k \in 1..Len(gltf.materials) : gltf.materials[k].doubleSided
        /\ \A i \in 1..Len(positions) : \A kj \in PlacesOf(i) :
              LET material == gltf.materials[Primitives[kj[1]].material + 1]
              IN  /\ material.alpha + ExportTransparency(i) = 100
                  /\ material.blend <=> (ExportTransparency(i) > 0)
                  /\ material.color = <<WantKey(i)[1], WantKey(i)[2], WantKey(i)[3]>>

\* C20 witness: elements with transparency 0.5 and -3 have been exported, the first with
\* alpha 0.5 and BLEND, the second with alpha 4 and no alphaMode.
C20_Witness ==
    /\ Exported
    /\ Len(positions) = 2
    /\ transparencies = <<50, -300>>
    /\ Len(gltf.materials) = 2
    /\ gltf.materials[1].alpha = 50 /\ gltf.materials[1].blend
    /\ gltf.materials[2].alpha = 400 /\ ~gltf.materials[2].blend
    /\ gltf.materials[2].doubleSided

-----------------------------------------------------------------------------
(* Claims C21 to C30 *)

\* C21 (as stated): exporting a fully empty element set still emits a document, which
\* holds the single default grey material and no geometry (no primitives, accessors,
\* bufferViews or buffers).
C21_EmptyExportEmitsDefaultDocument ==
    (pc = "exported" /\ Len(positions) = 0) =>
        /\ gltf.written
        /\ gltf.materials = <<DefaultMaterial>>
        /\ gltf.meshes[1].primitives = <<>>
        /\ gltf.accessors = <<>> /\ gltf.bufferViews = <<>> /\ gltf.buffers = <<>>

\* C21 (amended): a document is emitted exactly when there is at least one element;
\* an empty element set emits nothing, and every emitted document has at least one
\* material made from an element and one primitive for each material, so the default
\* grey material is never part of any output.
C21_DefaultMaterialNeverEmitted ==
    pc = "exported" =>
        /\ gltf.written <=> Len(positions) > 0
        /\ \A k \in 1..Len(gltf.materials) : gltf.materials[k].name # DefaultMaterial.name
        /\ gltf.written =>
               /\ Len(gltf.materials) >= 1
               /\ Len(gltf.meshes[1].primitives) = Len(gltf.materials)

\* C21 witness: an empty element set has gone through export and there is no document,
\* hence no material at all.
C21_Witness ==
    /\ pc = "exported"
    /\ raised = ""
    /\ block_count = 0
    /\ positions = <<>> /\ colors = <<>>
    /\ gltf = NoGltf

\* C21: a document with a material for each of two elements has been emitted too.
C21_WrittenReached ==
    /\ pc = "exported"
    /\ gltf.written
    /\ Len(positions) = 2
    /\ Len(gltf.materials) = 2

\* the first element (from 1) that has the key material number k (from 1) was made for
FirstElementOf(k) ==
    CHOOSE i \in 1..Len(positions) :
        /\ WantKey(i) = KeyOfMaterial(k)
        /\ \A h \in 1..(i - 1) : WantKey(h) # KeyOfMaterial(k)

\* materials are numbered in the order in which their keys first appear among the
\* elements, primitives are in material order, and the cuboids of a primitive are in
\* element order
FirstAppearanceOrder ==
    /\ \A k \in 1..Len(gltf.materials) :
          /\ \E i \in 1..Len(positions) : WantKey(i) = KeyOfMaterial(k)
          /\ gltf.materials[k].name = <<"Material_", k - 1>>
          /\ \A h \in 1..(k - 1) : FirstElementOf(h) < FirstElementOf(k)
    /\ \A p \in 1..Len(gltf.meshes[1].primitives) :
          /\ gltf.meshes[1].primitives[p].material = p - 1
          /\ \A j \in 2..Len(gltf.meshes[1].primitives[p].cuboids) :
                gltf.meshes[1].primitives[p].cuboids[j - 1].index
                    < gltf.meshes[1].primitives[p].cuboids[j].index

FaceIndices(k, j, f) == SubSeq(gltf.buffers[k].indices, 36 * j + 6 * f + 1, 36 * j + 6 * f + 6)

\* C25: each element contributes exactly 24 vertices, 24 normals and 36 indices to its
\* material group; the indices of face f (0..5) of the j-th element (from 0) of a group
\* are [v, v+1, v+2, v, v+2, v+3] with v = 24j + 4f; every index is below the group's
\* vertex count, and the POSITION and NORMAL accessors of a primitive have equal counts.
C25_IndicesPerElement ==
    Exported =>
        \A k \in 1..Len(Primitives) :
            /\ Len(gltf.buffers[k].vertices) = 24 * Len(Primitives[k].cuboids)
            /\ Len(gltf.buffers[k].normals) = 24 * Len(Primitives[k].cuboids)
            /\ Len(gltf.buffers[k].indices) = 36 * Len(Primitives[k].cuboids)
            /\ \A j \in 0..(Len(Primitives[k].cuboids) - 1) : \A f \in 0..5 :
                  FaceIndices(k, j, f)
                      = << 24 * j + 4 * f, 24 * j + 4 * f + 1, 24 * j + 4 * f + 2,
                           24 * j + 4 * f, 24 * j + 4 * f + 2, 24 * j + 4 * f + 3 >>
            /\ \A x \in 1..Len(gltf.buffers[k].indices) :
                  gltf.buffers[k].indices[x] \in 0..(Len(gltf.buffers[k].vertices) - 1)
            /\ gltf.accessors[Primitives[k].POSITION + 1].count
                  = gltf.accessors[Primitives[k].NORMAL + 1].count
            /\ gltf.accessors[Primitives[k].POSITION + 1].count
                  = Len(gltf.buffers[k].vertices)
            /\ gltf.accessors[Primitives[k].indices + 1].count
                  = Len(gltf.buffers[k].indices)

\* C25 witness: a group of two elements has been written, and the last face of its
\* second element is indexed 44, 45, 46, 44, 46, 47.
C25_Witness ==
    /\ Exported
    /\ Len(Primitives) = 1
    /\ Len(Primitives[1].cuboids) = 2
    /\ Len(gltf.buffers[1].indices) = 72
    /\ FaceIndices(1, 1, 5) = <<44, 45, 46, 44, 46, 47>>

\* the six element arrays of the renderer
ElementArrays == <<positions, rotations, sizes, colors, transparencies, blocks>>

\* C26: export_to_gltf leaves positions, rotations, sizes, colors, transparencies and
\* blocks as the parser produced them; the Z negation and the size clamping show only
\* in the exported cuboids.
C26_ExportLeavesArraysUnchanged ==
    [][ (pc = "parsed" /\ pc' = "exported") =>
            /\ ElementArrays' = ElementArrays
            /\ gltf'.written =>
                  \A k \in 1..Len(gltf'.meshes[1].primitives) :
                      \A j \in 1..Len(gltf'.meshes[1].primitives[k].cuboids) :
                          LET c == gltf'.meshes[1].primitives[k].cuboids[j]
                          IN  /\ c.position = << positions[c.index][1],
                                                 positions[c.index][2],
                                                 0 - positions[c.index][3] >>
                              /\ c.size = ClampSizes(sizes[c.index]) ]_vars

\* C26 witness: an element with a non-zero Z has been exported with its Z negated,
\* and the renderer still holds its source position and size.
C26_Witness ==
    /\ Exported
    /\ Len(positions) >= 1
    /\ positions[1][3] = 300
    /\ Primitives[1].cuboids[1].index = 1
    /\ Primitives[1].cuboids[1].position[3] = 0 - positions[1][3]
    /\ Primitives[1].cuboids[1].size = ClampSizes(sizes[1])

\* the arrays a renderer holds after parsing content c with no other renderer around
AloneArrays(c) == ParseOutcome(c).arr

\* what a renderer alone exports after parsing content c
AloneDocument(c) ==
    IF Len(AloneArrays(c).positions) = 0 THEN NoGltf ELSE ExportDocument(AloneArrays(c))

C23_InterleavedReached ==
    /\ pc = "parsed" /\ peer.pc = "parsed"
    /\ Len(positions) = 1 /\ Len(peer.arrays.positions) = 2

\* the url "primary if available, fallback otherwise" asks for
WantServerUrl(up) ==
    IF up.primary THEN WEB_SERVER_URL_PRIMARY
    ELSE IF up.fallback THEN WEB_SERVER_URL_FALLBACK
    ELSE WEB_SERVER_URL_PRIMARY

\* C28: every call of get_active_server_url returns the primary url if the primary
\* passes its health check at that call and the fallback url otherwise, whatever calls
\* and outages came before; with both servers down it returns the primary and leaves
\* nothing cached.
C28_PrimaryWheneverHealthy ==
    \A i \in 1..Len(calls) :
        /\ calls[i].returned = WantServerUrl(calls[i].up)
        /\ (~calls[i].up.primary /\ ~calls[i].up.fallback) => calls[i].cached = None

\* C28: a call made while both servers were healthy has returned the fallback
C28_StickyFallbackReached ==
    \E i \in 1..Len(calls) :
        /\ calls[i].up.primary /\ calls[i].up.fallback
        /\ calls[i].returned = WEB_SERVER_URL_FALLBACK

\* C28: with both servers down a call has returned the primary and cached nothing
C28_BothDownReached ==
    \E i \in 1..Len(calls) :
        /\ ~calls[i].up.primary /\ ~calls[i].up.fallback
        /\ calls[i].returned = WEB_SERVER_URL_PRIMARY
        /\ calls[i].cached = None

\* the temporary paths that hold something request r wrote
TempFilesOf(r) == {p \in Paths : files[p].by = r}

C24_RenderedReached ==
    \E r \in Requests :
        /\ requests[r].pc = "done"
        /\ requests[r].positions = 1
        /\ requests[r].exported /\ requests[r].uploaded
        /\ requests[r].reply = "rendered"

\* C27: of two concurrent render requests for the same build content, at most one
\* uploads a GLTF for that hash: the cache check made just before the upload sends the
\* other one to the cached model.
C27_AtMostOneUploadPerHash ==
    \A u1 \in uploads : \A u2 \in uploads :
        u1.build_hash = u2.build_hash => u1 = u2

\* C27: the check before the upload has caught a duplicate: one request uploaded and the
\* other, for the same content, skipped its upload after exporting
C27_DuplicateCaughtReached ==
    /\ requests[1].build_hash = requests[2].build_hash
    /\ requests[1].uploaded
    /\ requests[2].pc = "done" /\ requests[2].exported /\ requests[2].cached
    /\ ~requests[2].uploaded

\* C29: of two concurrent requests whose attachments have the same filename and
\* different content, each one's parser reads the bytes that request uploaded (so
\* neither finds its file overwritten or removed by the other).
C29_ParserReadsOwnUpload ==
    (/\ requests[1].filename = requests[2].filename
     /\ requests[1].build_content # requests[2].build_content) =>
        \A r \in Requests : requests[r].read \in {NotRead, requests[r].build_content}

\* C29: a request's parser has read the other request's bytes
C29_ReadOthersBytesReached ==
    \E r \in Requests : \E o \in Requests :
        /\ o # r
        /\ requests[r].build_content # requests[o].build_content
        /\ requests[r].read = requests[o].build_content

\* C29: a request's parser found its temporary build file removed by the other request
C29_FileRemovedReached ==
    \E r \in Requests : requests[r].wrote /\ requests[r].read = Missing

\* C30: when a request that wrote a temporary build file has finished, on whatever
\* path, neither its temporary build file nor its temporary GLTF directory exists.
C30_NoTempFilesAfterRequest ==
    \A r \in Requests :
        (requests[r].pc = "done" /\ requests[r].wrote) => TempFilesOf(r) = {}

\* C30: a request has finished on the exception path and left its build file behind
\* although the other request uses a different filename
C30_LeftBehindReached ==
    /\ requests[1].filename # requests[2].filename
    /\ \E r \in Requests :
          /\ requests[r].pc = "done"
          /\ requests[r].reply = "error"
          /\ files[BuildPath(requests[r].filename)].by = r

====
